---- MODULE Spec2Model ----
(***************************************************************************)
(* Model of tejolote's provenance-assembly engine: the snapshot delta,     *)
(* the build drivers' run refresh, the watcher's polling loop, snapshot    *)
(* persistence and the start -> attest handoff.                            *)
(***************************************************************************)
EXTENDS Integers, Sequences, FiniteSets, TLC

(* ------------------------------------------------------------------ *)
(* Bounds and value universes                                          *)
(* ------------------------------------------------------------------ *)

\* Artifact identities (run.Artifact.Path, the keys of a snapshot).
\* The same in byte order, the order encoding/json writes map keys in.
PathSeq == <<"a.txt", "b.txt">>

Paths == {PathSeq[i] : i \in 1..Len(PathSeq)}

\* Checksum algorithms and digest values found in run.Artifact.Checksum.
Algos == {"SHA256", "sha1"}

\* Number of distinct digest values per algorithm.
MaxHash == 2

\* Digest values, abstracted to 1..MaxHash; NoHash stands for the empty
\* string a failed map lookup yields.
HashVals == 1..MaxHash

NoHash == 0

\* time.Time values; ZeroTime is the zero value time.Time{}.
ZeroTime == 0

TimeVals == {ZeroTime, 1}

\* map[string]string: every function from a subset of Algos to HashVals.
ChecksumMaps == UNION {[D -> HashVals] : D \in SUBSET Algos}

\* run.Artifact
Artifact == [Path : Paths, Checksum : ChecksumMaps, Time : TimeVals]

\* snapshot.Snapshot: map[string]run.Artifact, keyed by the artifact's path.
Snapshot == UNION {{s \in [D -> Artifact] : \A p \in D : s[p].Path = p} : D \in SUBSET Paths}

EmptyMap == [x \in {} |-> x]

VARIABLES
    pre,          \* Delta: the receiver snapshot (*snap)
    post,         \* Delta: the argument snapshot (*post)
    todo,         \* Delta: keys of *post the range loop has not visited yet
    results,      \* Delta: the results slice
    dpc,          \* Delta: position, "idle", "loop" or "done"
    driver,       \* the build driver behind Builder: "gcb" or "github"
    run,          \* the *run.Run handed from GetRun to Watch
    waitForBuild, \* Watcher.Options.WaitForBuild
    wpc,          \* position of the attest command in GetRun / Watch
    werr,         \* the error GetRun or Watch returned ("nil" for none)
    refreshes,    \* number of RefreshRun calls made by Watch
    iters,        \* number of loop iterations of Watch that found the run running
    entryRunning, \* r.IsRunning when Watch was entered
    cancelled,    \* the caller's cancellation signal has fired
    storage,      \* what each storage location currently holds (spec URL -> snapshot)
    stores1,      \* spec URLs of the ArtifactStores of the watcher of `start`
    snaps1,       \* Watcher.Snapshots of the watcher of `start`
    file,         \* the snapshot state file SaveSnapshots wrote, or NoFile
    stores2,      \* spec URLs of the ArtifactStores of the watcher of `attest`
    snaps2,       \* Watcher.Snapshots of the watcher of `attest`
    writes,       \* number of changes made to the storage locations so far
    spc,          \* position in the snapshot hand-over
    slsaVersion,  \* Watcher.Options.SLSAVersion of the `attest` watcher
    vcsURL,       \* the VCS locator `start` records as a material
    depURIs,      \* Builder.DependencyURIs of the `attest` watcher
    continuing,   \* attest was given the draft of `start` (--continue)
    draftFile,    \* the JSON document `start` emitted, or NoDoc
    draftAtt,     \* Watcher.DraftAttestation of the `attest` watcher, or NoAtt
    statement,    \* the attestation the last AttestRun returned, or NoAtt
    prevStatement, \* what the AttestRun before the last returned, as it was then
    apc,          \* position in the start -> attest flow
    registry,     \* the last call of a driver registry and what it returned
    specURL,      \* Builder.SpecURL, the run URL the command was given
    gcs,          \* the GCS store driver: bucket, work directory and its Snap call
    output,       \* what attest wrote to --output (or stdout)
    oci,          \* the OCI store driver: registry, image and its Snap call
    fan,          \* the GCB store driver's readArtifacts: its goroutines and shared slice
    pubsub        \* `start`: the --pubsub topic, whether a state path is resolved, the messages sent

deltaVars == <<pre, post, todo, results, dpc>>

watchVars == <<driver, run, waitForBuild, wpc, werr, refreshes, iters, entryRunning, cancelled>>

snapVars == <<storage, stores1, snaps1, file, stores2, snaps2, writes, spc>>

attestVars ==
    <<slsaVersion, vcsURL, depURIs, continuing, draftFile, draftAtt, statement, prevStatement, apc>>

extVars == <<registry, specURL, gcs, output, oci, fan, pubsub>>

vars == <<deltaVars, watchVars, snapVars, attestVars, extVars>>


(* ------------------------------------------------------------------ *)
(* snapshot.Snapshot.Delta                                             *)
(* ------------------------------------------------------------------ *)

\* Mutation of ChecksumChanged: the `ok` test of the lookup in f.Checksum is
\* dropped, so a missing algorithm reads as the empty string and differs.
ChecksumChangedNoOk(preSum, postSum) ==
    \E algo \in DOMAIN preSum :
        (IF algo \in DOMAIN postSum THEN postSum[algo] ELSE NoHash) # preSum[algo]

\* The inner loop of Delta: ranges over the checksums of the first
\* snapshot's entry; an algorithm also present in f.Checksum with another
\* value appends f once (break).
ChecksumChanged(preSum, postSum) ==
    \E algo \in DOMAIN preSum :
        /\ algo \in DOMAIN postSum
        /\ postSum[algo] # preSum[algo]

\* Mutation of DeltaIncludes: the `!ok` of the first test is inverted, so a
\* path the first snapshot holds is appended.
DeltaIncludesInverted(snap, path, f) ==
    \/ path \in DOMAIN snap
    \/ /\ path \in DOMAIN snap
       /\ snap[path].Time # f.Time
    \/ /\ path \in DOMAIN snap
       /\ snap[path].Time = f.Time
       /\ ChecksumChanged(snap[path].Checksum, f.Checksum)

\* The body of the range loop for one (path, f) of *post.
DeltaIncludes(snap, path, f) ==
    \/ path \notin DOMAIN snap
    \/ /\ path \in DOMAIN snap
       /\ snap[path].Time # f.Time
    \/ /\ path \in DOMAIN snap
       /\ snap[path].Time = f.Time
       /\ ChecksumChanged(snap[path].Checksum, f.Checksum)

\* One iteration of `for path, f := range *post`; Go ranges over a map in an
\* unspecified order, so any unvisited key may come next.
DeltaStep ==
    /\ dpc = "loop"
    /\ \E path \in todo :
        /\ results' = IF DeltaIncludes(pre, path, post[path])
                      THEN Append(results, post[path])
                      ELSE results
        /\ todo' = todo \ {path}
    /\ UNCHANGED <<pre, post, dpc>>
    /\ UNCHANGED <<watchVars, snapVars, attestVars, extVars>>

\* `return results` once the range is exhausted.
DeltaReturn ==
    /\ dpc = "loop"
    /\ todo = {}
    /\ dpc' = "done"
    /\ UNCHANGED <<pre, post, todo, results>>
    /\ UNCHANGED <<watchVars, snapVars, attestVars, extVars>>


(* ------------------------------------------------------------------ *)
(* run.Run and the build drivers' GetRun / RefreshRun                  *)
(* ------------------------------------------------------------------ *)

\* Largest number of RefreshRun calls one Watch is followed through.
MaxPolls == 3

Drivers == {"gcb", "github"}

\* cloudbuild.Build.Status: the values the driver maps, and one it does not.
GCBRunningStatuses == {"PENDING", "QUEUED", "WORKING"}

GCBFailedStatuses == {"FAILURE", "INTERNAL_ERROR", "TIMEOUT", "CANCELLED", "EXPIRED"}

GCBStatuses == {"SUCCESS", "STATUS_UNKNOWN"} \cup GCBRunningStatuses \cup GCBFailedStatuses

\* github.Run.Status and github.Run.Conclusion as the API reports them.
GitHubStatuses == {"queued", "in_progress", "completed"}

GitHubConclusions == {"", "success", "failure", "cancelled", "skipped"}

\* What the backend answers to one query: *cloudbuild.Build or *github.Run.
\* Timed tells whether the answer carries the backend's own start and finish
\* times (build.StartTime / FinishTime, created_at / updated_at). Subs is
\* the set of keys of build.Substitutions and Trigger tells of
\* build.BuildTriggerId: "none" when empty, else what the lookup of the
\* trigger will give. The polled builds are manual ones, with neither.
BackendResponses(d) ==
    IF d = "gcb"
    THEN [Status : GCBStatuses, Conclusion : {""}, Timed : BOOLEAN,
          Subs : {{}}, Trigger : {"none"}, Steps : {<<>>}]
    ELSE [Status : GitHubStatuses, Conclusion : GitHubConclusions, Timed : BOOLEAN,
          Subs : {{}}, Trigger : {"none"}, Steps : {<<>>}]

\* URIs are kept in two parts: the text before the first '@' and the text
\* after it ("" when there is no '@').
NoURI == [Base |-> "", Suffix |-> ""]

\* A 40-character commit hash, the head commit of the workflow run.
Commit40 == "0123456789abcdef0123456789abcdef01234567"

\* strings.Index(s, ch) from position i on, for a one-character ch: the
\* position of its first occurrence, or 0.
RECURSIVE StringIndex(_, _, _)
StringIndex(s, ch, i) ==
    IF i > Len(s) THEN 0
    ELSE IF SubSeq(s, i, i) = ch THEN i
    ELSE StringIndex(s, ch, i + 1)

UpperLetters == "ABCDEFGHIJKLMNOPQRSTUVWXYZ"

LowerLetters == "abcdefghijklmnopqrstuvwxyz"

\* unicode.ToLower on the upper-case letters.
LowerOf ==
    [c \in {SubSeq(UpperLetters, k, k) : k \in 1..Len(UpperLetters)} |->
        LET k == StringIndex(UpperLetters, c, 1) IN SubSeq(LowerLetters, k, k)]

\* strings.ToLower
RECURSIVE ToLower(_)
ToLower(s) ==
    IF Len(s) = 0 THEN s
    ELSE LET c == SubSeq(s, 1, 1)
         IN  (IF c \in DOMAIN LowerOf THEN LowerOf[c] ELSE c) \o ToLower(SubSeq(s, 2, Len(s)))

\* strings.HasPrefix
HasPrefix(s, prefix) ==
    Len(s) >= Len(prefix) /\ SubSeq(s, 1, Len(prefix)) = prefix

\* strings.TrimSuffix
TrimSuffix(s, suffix) ==
    IF Len(s) >= Len(suffix) /\ SubSeq(s, Len(s) - Len(suffix) + 1, Len(s)) = suffix
    THEN SubSeq(s, 1, Len(s) - Len(suffix))
    ELSE s

Digits == {"0", "1", "2", "3", "4", "5", "6", "7", "8", "9"}

AllDigits(s) == \A k \in 1..Len(s) : SubSeq(s, k, k) \in Digits

\* strconv.Atoi returns no error: an optional sign, then one digit or more
\* (the run identifiers used here fit an int).
AtoiOk(s) ==
    LET body == IF Len(s) > 0 /\ SubSeq(s, 1, 1) \in {"+", "-"} THEN SubSeq(s, 2, Len(s)) ELSE s
    IN  Len(body) > 0 /\ AllDigits(body)

\* url.Parse of a scheme://host/path URL: the scheme in lower case, the
\* host, and the path from its leading '/' on.
URLParse(s) ==
    LET c == StringIndex(s, ":", 1)
        rest == SubSeq(s, c + 3, Len(s))
        sl == StringIndex(rest, "/", 1)
    IN  [Scheme |-> ToLower(SubSeq(s, 1, c - 1)),
         Host |-> IF sl = 0 THEN rest ELSE SubSeq(rest, 1, sl - 1),
         Path |-> IF sl = 0 THEN "" ELSE SubSeq(rest, sl, Len(rest))]

\* parseGitHubURL: the path is cut at its first two '/' (SplitN with n = 3
\* gives three parts exactly when there are two), the last part without a
\* trailing '/' must be a number, and the organization is the host.
parseGitHubURL(url) ==
    LET u == URLParse(url)
        i1 == StringIndex(u.Path, "/", 1)
        i2 == IF i1 = 0 THEN 0 ELSE StringIndex(u.Path, "/", i1 + 1)
        id == TrimSuffix(SubSeq(u.Path, i2 + 1, Len(u.Path)), "/")
        fail(e) == [Err |-> e, Org |-> "", Repo |-> "", RunID |-> ""]
    IN  CASE u.Scheme # "github" -> fail("URL is not a github URL")
          [] i2 = 0 -> fail("invalid run URI")
          [] ~AtoiOk(id) -> fail("parsing run ID from URL")
          [] OTHER -> [Err |-> "", Org |-> u.Host, Repo |-> SubSeq(u.Path, i1 + 1, i2 - 1),
                       RunID |-> id]

\* The run URL a well-formed invocation passes for each driver.
RunURLOf(d) ==
    CASE d = "gcb" -> "gcb://project/build-id"
      [] d = "github" -> "github://org/repo/7492361110"
      [] OTHER -> ""

\* Run URLs the attest command may be given for a driver.
RunURLs(d) ==
    IF d = "github"
    THEN {RunURLOf(d), "github://github.com/org/repo/7492361110",
          "github://org/repo", "github://org/repo/main"}
    ELSE {RunURLOf(d)}

GitHubBuildPoint(org, repo) ==
    [Base |-> "git+ssh://github.com/" \o org \o "/" \o repo, Suffix |-> Commit40]

NoData ==
    [Status |-> "none", Conclusion |-> "", Timed |-> FALSE, Subs |-> {}, Trigger |-> "none",
     Steps |-> <<>>]

\* The run.Run literal both GetRun methods build; IsRunning is not named in
\* the literal and takes Go's zero value.
NewRun ==
    [SpecURL |-> "", IsSuccess |-> FALSE, IsRunning |-> FALSE, Steps |-> <<>>,
     StartTime |-> ZeroTime, EndTime |-> ZeroTime, SystemData |-> NoData,
     Artifacts |-> <<>>, BuildPoint |-> NoURI]

\* Mutation of GCBStatusFlags: the case of the failed statuses forgets
\* r.IsRunning = false.
GCBStatusFlagsFailedKeepsRunning(r, status) ==
    CASE status = "SUCCESS" -> [r EXCEPT !.IsSuccess = TRUE, !.IsRunning = FALSE]
      [] status \in GCBRunningStatuses -> [r EXCEPT !.IsSuccess = FALSE, !.IsRunning = TRUE]
      [] status \in GCBFailedStatuses -> [r EXCEPT !.IsSuccess = FALSE]
      [] OTHER -> r

\* Mutation of GCBStatusFlags: the SUCCESS case forgets r.IsRunning = false.
GCBStatusFlagsKeepRunning(r, status) ==
    CASE status = "SUCCESS" -> [r EXCEPT !.IsSuccess = TRUE]
      [] status \in GCBRunningStatuses -> [r EXCEPT !.IsSuccess = FALSE, !.IsRunning = TRUE]
      [] status \in GCBFailedStatuses -> [r EXCEPT !.IsSuccess = FALSE, !.IsRunning = FALSE]
      [] OTHER -> r

\* Mutation of GCBStatusFlags: the failure case forgets r.IsSuccess = false.
GCBStatusFlagsFailedKeepsSuccess(r, status) ==
    CASE status = "SUCCESS" -> [r EXCEPT !.IsSuccess = TRUE, !.IsRunning = FALSE]
      [] status \in GCBRunningStatuses -> [r EXCEPT !.IsSuccess = FALSE, !.IsRunning = TRUE]
      [] status \in GCBFailedStatuses -> [r EXCEPT !.IsRunning = FALSE]
      [] OTHER -> r

\* The switch on build.Status in GCB.RefreshRun; no default case.
GCBStatusFlags(r, status) ==
    CASE status = "SUCCESS" -> [r EXCEPT !.IsSuccess = TRUE, !.IsRunning = FALSE]
      [] status \in GCBRunningStatuses -> [r EXCEPT !.IsSuccess = FALSE, !.IsRunning = TRUE]
      [] status \in GCBFailedStatuses -> [r EXCEPT !.IsSuccess = FALSE, !.IsRunning = FALSE]
      [] OTHER -> r

\* The loop over build.Steps in GCB.RefreshRun: r.Steps grows to the number
\* of build steps, and step i takes the name of build step i as Image and
\* its Args as Params.
GCBRefreshSteps(steps, buildSteps) ==
    [i \in 1..(IF Len(steps) > Len(buildSteps) THEN Len(steps) ELSE Len(buildSteps)) |->
        IF i <= Len(buildSteps)
        THEN [Image |-> buildSteps[i].Name, Params |-> buildSteps[i].Args]
        ELSE steps[i]]

\* GCB.RefreshRun on a successful API answer: flags, then r.SystemData = build.
\* r.StartTime and r.EndTime are not assigned.
GCBRefreshRun(r, build) ==
    [GCBStatusFlags(r, build.Status) EXCEPT !.SystemData = build,
                                            !.Steps = GCBRefreshSteps(r.Steps, build.Steps)]

\* A RefreshRun that marks the run as running while the workflow run has
\* not completed.
GitHubStatusFlagsSetsRunning(r, runData) ==
    LET r1 == [r EXCEPT !.IsRunning = (runData.Status # "completed")]
    IN  CASE runData.Conclusion \in {"failure", "cancelled"} -> [r1 EXCEPT !.IsSuccess = FALSE]
          [] runData.Conclusion = "success" -> [r1 EXCEPT !.IsSuccess = TRUE]
          [] OTHER -> r1

\* The `if runData.Status == "completed"` and the switch on
\* runData.Conclusion in GitHubWorkflow.RefreshRun.
GitHubStatusFlags(r, runData) ==
    LET r1 == IF runData.Status = "completed" THEN [r EXCEPT !.IsRunning = FALSE] ELSE r
    IN  CASE runData.Conclusion \in {"failure", "cancelled"} -> [r1 EXCEPT !.IsSuccess = FALSE]
          [] runData.Conclusion = "success" -> [r1 EXCEPT !.IsSuccess = TRUE]
          [] OTHER -> r1

\* GitHubWorkflow.RefreshRun on a successful API answer: flags, SystemData,
\* and the build point git+ssh://github.com/<org>/<repo>@<head sha>.
GitHubRefreshRun(r, runData) ==
    LET parsed == parseGitHubURL(r.SpecURL)
    IN  [GitHubStatusFlags(r, runData) EXCEPT !.SystemData = runData,
                                              !.BuildPoint = GitHubBuildPoint(parsed.Org, parsed.Repo)]

\* RefreshRun returns an error before it asks the backend: the GitHub driver
\* when the run's spec URL does not parse (the GCB driver reads host and
\* path of any URL).
RefreshRunFails(d, r) == d = "github" /\ parseGitHubURL(r.SpecURL).Err # ""

\* Builder.RefreshRun: dispatch to the driver.
RefreshRun(d, r, resp) ==
    IF d = "gcb" THEN GCBRefreshRun(r, resp) ELSE GitHubRefreshRun(r, resp)

(* ------------------------------------------------------------------ *)
(* Watcher.GetRun and Watcher.Watch, as the attest command calls them  *)
(* ------------------------------------------------------------------ *)

\* Mutation of WatchDone: the test of r.IsRunning is inverted.
WatchDoneWhenRunning(r) == r.IsRunning

\* Mutation of WatchDone: Watch returns without looking at the run.
WatchDoneAlways(r) == TRUE

\* `if !r.IsRunning { return nil }`, the only successful exit of Watch.
WatchDone(r) == ~r.IsRunning

\* w.GetRun(args[0]): the driver builds the run for the spec URL and
\* refreshes it once; a failure of that refresh (the URL does not parse, or
\* the API fails) returns an error and no run.
GetRun ==
    /\ wpc = "start"
    /\ \E ok \in BOOLEAN, resp \in BackendResponses(driver) :
        LET r == [NewRun EXCEPT !.SpecURL = specURL]
        IN
        IF ok /\ ~RefreshRunFails(driver, r)
        THEN /\ run' = RefreshRun(driver, r, resp)
             /\ entryRunning' = run'.IsRunning
             /\ wpc' = "check"
             /\ UNCHANGED werr
        ELSE /\ wpc' = "failed"
             /\ werr' = IF RefreshRunFails(driver, r) THEN "parsing spec url"
                        ELSE "querying api"
             /\ UNCHANGED <<run, entryRunning>>
    /\ UNCHANGED <<driver, waitForBuild, refreshes, iters, cancelled>>
    /\ UNCHANGED <<deltaVars, snapVars, attestVars, extVars>>

\* Top of the for loop of Watch: return nil when the run is not running,
\* else (after the WaitForBuild warning, which changes nothing) go on to
\* RefreshRun.
WatchCheck ==
    /\ wpc = "check"
    /\ IF WatchDone(run)
       THEN /\ wpc' = "returned"
            /\ UNCHANGED iters
       ELSE /\ refreshes < MaxPolls
            /\ wpc' = "refresh"
            /\ iters' = iters + 1
    /\ UNCHANGED <<driver, run, waitForBuild, werr, refreshes, entryRunning, cancelled>>
    /\ UNCHANGED <<deltaVars, snapVars, attestVars, extVars>>

\* w.Builder.RefreshRun(r) inside the loop; an error ends Watch.
WatchRefresh ==
    /\ wpc = "refresh"
    /\ refreshes' = refreshes + 1
    /\ \E ok \in BOOLEAN, resp \in BackendResponses(driver) :
        IF ok /\ ~RefreshRunFails(driver, run)
        THEN /\ run' = RefreshRun(driver, run, resp)
             /\ wpc' = "sleep"
             /\ UNCHANGED werr
        ELSE /\ wpc' = "returned"
             /\ werr' = "refreshing run data"
             /\ UNCHANGED run
    /\ UNCHANGED <<driver, waitForBuild, iters, entryRunning, cancelled>>
    /\ UNCHANGED <<deltaVars, snapVars, attestVars, extVars>>

\* A caller that holds the run calls Builder.RefreshRun on it directly, at
\* any time and against any backend answer; an API failure leaves the run
\* as it was.
RefreshRunCall ==
    /\ wpc = "check"
    /\ refreshes < MaxPolls
    /\ refreshes' = refreshes + 1
    /\ \E ok \in BOOLEAN, resp \in BackendResponses(driver) :
        run' = IF ok /\ ~RefreshRunFails(driver, run) THEN RefreshRun(driver, run, resp) ELSE run
    /\ UNCHANGED <<driver, waitForBuild, wpc, werr, iters, entryRunning, cancelled>>
    /\ UNCHANGED <<deltaVars, snapVars, attestVars, extVars>>

\* time.Sleep(3 * time.Second) ends; the loop starts over.
WatchSleep ==
    /\ wpc = "sleep"
    /\ wpc' = "check"
    /\ UNCHANGED <<driver, run, waitForBuild, werr, refreshes, iters, entryRunning, cancelled>>
    /\ UNCHANGED <<deltaVars, snapVars, attestVars, extVars>>

\* The caller's cancellation signal (the context of the cobra command, which
\* RunE drops) fires while Watch sleeps. Watch takes no context.
Cancel ==
    /\ wpc = "sleep"
    /\ ~cancelled
    /\ cancelled' = TRUE
    /\ UNCHANGED <<driver, run, waitForBuild, wpc, werr, refreshes, iters, entryRunning>>
    /\ UNCHANGED <<deltaVars, snapVars, attestVars, extVars>>

(* ------------------------------------------------------------------ *)
(* Watcher.Snap, SaveSnapshots, LoadSnapshots, checkSnapshotMatch      *)
(* ------------------------------------------------------------------ *)

\* Largest number of artifact stores given to a watcher (--artifacts).
MaxStores == 2

\* Largest number of snapshot sets a watcher takes.
MaxSnaps == 2

\* Largest number of changes the build makes to the storage locations.
MaxWrites == 1

\* Spec URLs of storage locations, in byte order.
StoreURLSeq == <<"file:///out", "gs://bucket/out">>

StoreURLs == {StoreURLSeq[i] : i \in 1..Len(StoreURLSeq)}

\* Store lists: the sequences of at most MaxStores distinct spec URLs.
\* The spec URL GitHubWorkflow.ArtifactStores builds of the run it watches.
NativeStoreURL == "actions://org/repo/7492361110"

StoreLists ==
    UNION {{l \in [1..n -> StoreURLs] : \A i, j \in 1..n : i # j => l[i] # l[j]}
            : n \in 0..MaxStores}

\* What a storage location may hold: files hashed with SHA256 by the
\* directory driver, all of one modification time.
FileArtifact(p, h) == [Path |-> p, Checksum |-> [a \in {"SHA256"} |-> h], Time |-> 1]

StoreContents ==
    UNION {{c \in [D -> Artifact] : \A p \in D : \E h \in HashVals : c[p] = FileArtifact(p, h)}
            : D \in SUBSET Paths}

\* The state file: absent, or present with the JSON text it holds.
NoFile == [Exists |-> FALSE, Data |-> <<>>]

\* All orders a range over the keys of map m may take.
RangeOrders(m) ==
    {o \in [1..Cardinality(DOMAIN m) -> DOMAIN m] :
        \A i, j \in DOMAIN o : i # j => o[i] # o[j]}

\* A Snap that keeps the snapshot of the first store only.
SnapSetFirstOnly(stores, st) ==
    [u \in {stores[i] : i \in DOMAIN stores \cap {1}} |-> st[u]]

\* The map Snap builds: snaps[s.SpecURL] = snap for each store in turn; a
\* spec URL listed twice is written twice and kept once.
SnapSet(stores, st) ==
    [u \in {stores[i] : i \in DOMAIN stores} |-> st[u]]

\* encoding/json on a map: an object whose members come in key order.
EncodeSnapshot(snp) ==
    LET keys == SelectSeq(PathSeq, LAMBDA p : p \in DOMAIN snp)
    IN  [i \in 1..Len(keys) |-> <<keys[i], snp[keys[i]]>>]

EncodeSnapSet(set) ==
    LET keys == SelectSeq(StoreURLSeq, LAMBDA u : u \in DOMAIN set)
    IN  [i \in 1..Len(keys) |-> <<keys[i], EncodeSnapshot(set[keys[i]])>>]

\* enc.Encode(w.Snapshots): a JSON array of such objects.
EncodeSnapshots(list) ==
    [i \in 1..Len(list) |-> EncodeSnapSet(list[i])]

\* json.Unmarshal of an object into a Go map: the members become the
\* entries of a map, which keeps no order.
DecodeObject(obj) ==
    [k \in {obj[i][1] : i \in DOMAIN obj} |->
        obj[CHOOSE i \in DOMAIN obj : obj[i][1] = k][2]]

DecodeSnapSet(obj) ==
    LET m == DecodeObject(obj)
    IN  [u \in DOMAIN m |-> DecodeObject(m[u])]

DecodeSnapshots(data) ==
    [i \in 1..Len(data) |-> DecodeSnapSet(data[i])]

\* checkSnapshotMatch: nil (TRUE) when the set has as many keys as the
\* watcher has stores and the i-th key the range yields is the spec URL of
\* the i-th store. `order` is the order the range over the map takes.
CheckSnapshotMatch(stores, snapset, order) ==
    /\ Cardinality(DOMAIN snapset) = Len(stores)
    /\ \A i \in DOMAIN order : stores[i] = order[i]

\* Watcher.Snap of the `start` watcher. A driver that fails makes Snap
\* return an error before anything is appended.
WatcherSnap ==
    /\ spc = "snap"
    /\ Len(snaps1) < MaxSnaps
    /\ \E ok \in BOOLEAN :
        IF ok \/ stores1 = <<>>
        THEN /\ snaps1' = Append(snaps1, SnapSet(stores1, storage))
             /\ UNCHANGED spc
        ELSE /\ spc' = "snapfailed"
             /\ UNCHANGED snaps1
    /\ UNCHANGED <<storage, stores1, file, stores2, snaps2, writes>>
    /\ UNCHANGED <<deltaVars, watchVars, attestVars, extVars>>

\* The build (or anything else) changes what one storage location holds.
StorageWrite ==
    /\ spc \in {"snap", "saved"}
    /\ apc \in {"idle", "emitted"}
    /\ writes < MaxWrites
    /\ writes' = writes + 1
    /\ \E u \in DOMAIN storage, c \in StoreContents :
        /\ c # storage[u]
        /\ storage' = [storage EXCEPT ![u] = c]
    /\ UNCHANGED <<stores1, snaps1, file, stores2, snaps2, spc>>
    /\ UNCHANGED <<deltaVars, watchVars, attestVars, extVars>>

\* SaveSnapshots: nothing is written for an empty list.
SaveSnapshots ==
    /\ spc = "snap"
    /\ file' = IF Len(snaps1) = 0
               THEN file
               ELSE [Exists |-> TRUE, Data |-> EncodeSnapshots(snaps1)]
    /\ spc' = "saved"
    /\ UNCHANGED <<storage, stores1, snaps1, stores2, snaps2, writes>>
    /\ UNCHANGED <<deltaVars, watchVars, attestVars, extVars>>

\* LoadSnapshots of the `attest` watcher on the state file, called when the
\* file exists: unmarshal, check every set, and only then assign. (attest
\* skips the call when the state path names no file; both happen.)
LoadSnapshots ==
    /\ spc = "saved"
    /\ apc \in {"idle", "draftloaded"}
    /\ file.Exists
    /\ LET snapData == DecodeSnapshots(file.Data)
       IN  \E orders \in [DOMAIN snapData -> UNION {RangeOrders(snapData[i]) : i \in DOMAIN snapData}] :
            /\ \A i \in DOMAIN snapData : orders[i] \in RangeOrders(snapData[i])
            /\ IF \A i \in DOMAIN snapData : CheckSnapshotMatch(stores2, snapData[i], orders[i])
               THEN /\ snaps2' = snapData
                    /\ spc' = "loaded"
               ELSE /\ spc' = "loadfailed"
                    /\ UNCHANGED snaps2
    /\ UNCHANGED <<storage, stores1, snaps1, file, stores2, writes>>
    /\ UNCHANGED <<deltaVars, watchVars, attestVars, extVars>>

SnapIdle ==
    /\ storage = [u \in StoreURLs \cup {NativeStoreURL} |-> EmptyMap]
    /\ stores1 = <<>>
    /\ snaps1 = <<>>
    /\ file = NoFile
    /\ stores2 = <<>>
    /\ snaps2 = <<>>
    /\ writes = 0
    /\ spc = "idle"

(* ------------------------------------------------------------------ *)
(* Predicates, attestations and their JSON form                        *)
(* ------------------------------------------------------------------ *)

SLSAVersions == {"1", "1.0", "0.2"}

RepoURI == [Base |-> "git+https://github.com/org/repo", Suffix |-> ""]

\* A predicate: which of the two types it is, its build type and its
\* dependency list (Materials in v0.2, ResolvedDependencies in v1).
\* ConfigSource is the v0.2 invocation.configSource; a v1 predicate keeps
\* in its place the external parameter "source", a locator without digest.
NoDigest == [a \in {} |-> ""]

NoConfigSource == [URI |-> NoURI, Digest |-> NoDigest]

\* A nil BuildConfig map.
NoBuildConfig == [Set |-> FALSE, steps |-> <<>>]

NoPred ==
    [Kind |-> "none", BuildType |-> "", Deps |-> <<>>, ConfigSource |-> NoConfigSource,
     BuildConfig |-> NoBuildConfig]

\* NewSLSAPredicate
NewSLSAPredicate ==
    [Kind |-> "v0.2", BuildType |-> "", Deps |-> <<>>, ConfigSource |-> NoConfigSource,
     BuildConfig |-> NoBuildConfig]

\* NewSLSAV1Predicate
NewSLSAV1Predicate ==
    [Kind |-> "v1", BuildType |-> "", Deps |-> <<>>, ConfigSource |-> NoConfigSource,
     BuildConfig |-> NoBuildConfig]

\* Predicate.Type()
PredicateTypeOf(pred) ==
    IF pred.Kind = "v1"
    THEN "https://slsa.dev/provenance/v1"
    ELSE "https://slsa.dev/provenance/v0.2"

NoAtt == [Subject |-> <<>>, PredicateType |-> "", Predicate |-> NoPred]

\* attestation.New followed by SLSA() or SLSAv1(), by the configured version.
NewAttestation(version) ==
    [Subject |-> <<>>,
     PredicateType |-> "https://slsa.dev/provenance/v0.2",
     Predicate |-> IF version \in {"1", "1.0"} THEN NewSLSAV1Predicate ELSE NewSLSAPredicate]

\* SLSAPredicate.AddDependency: replace the material of the same URI, else
\* append.
AddDependencyV02(deps, dep) ==
    LET mat == [URI |-> dep.URI, Digest |-> dep.Digest]
    IN  IF \E i \in DOMAIN deps : deps[i].URI = dep.URI
        THEN [i \in DOMAIN deps |-> IF i = (CHOOSE j \in DOMAIN deps :
                                              /\ deps[j].URI = dep.URI
                                              /\ \A k \in DOMAIN deps : deps[k].URI = dep.URI => j <= k)
                                    THEN mat ELSE deps[i]]
        ELSE Append(deps, mat)

\* SLSAPredicateV1.AddDependency: append.
AddDependencyV1(deps, dep) == Append(deps, dep)

AddDependency(pred, dep) ==
    [pred EXCEPT !.Deps = IF pred.Kind = "v1"
                          THEN AddDependencyV1(pred.Deps, dep)
                          ELSE AddDependencyV02(pred.Deps, dep)]

\* SetConfigSource of either predicate type: v0.2 copies the digests into
\* the ones it has and takes the URI; v1 records the URI, followed by '@'
\* and the sha1 digest when there is one, as its source parameter.
SetConfigSource(pred, src) ==
    IF pred.Kind = "v1"
    THEN [pred EXCEPT !.ConfigSource =
            [URI |-> IF "sha1" \in DOMAIN src.Digest /\ src.Digest["sha1"] # ""
                     THEN [Base |-> src.URI.Base, Suffix |-> src.Digest["sha1"]]
                     ELSE src.URI,
             Digest |-> NoDigest]]
    ELSE [pred EXCEPT !.ConfigSource =
            [URI |-> src.URI,
             Digest |-> [a \in DOMAIN @.Digest \cup DOMAIN src.Digest |->
                            IF a \in DOMAIN src.Digest THEN src.Digest[a] ELSE @.Digest[a]]]]

\* Attestation.ToJSON of a statement with a v0.2 predicate: the header's
\* members and a predicate object with the v0.2 member names; `materials`
\* is left out when empty (omitempty).
EncodeAttestationV02(att) ==
    [subject |-> att.Subject,
     predicateType |-> att.PredicateType,
     predicate |-> IF att.Predicate.Deps = <<>>
                   THEN [buildType |-> att.Predicate.BuildType,
                         invocation |-> [configSource |-> att.Predicate.ConfigSource]]
                   ELSE [buildType |-> att.Predicate.BuildType,
                         invocation |-> [configSource |-> att.Predicate.ConfigSource],
                         materials |-> att.Predicate.Deps]]

NoDoc == [subject |-> <<>>, predicateType |-> "", predicate |-> [none |-> TRUE]]

\* json.Unmarshal of a predicate object into the *SLSAPredicate the
\* attestation holds: the members named buildType, invocation and
\* materials are taken.
DecodePredicateV02(obj, into) ==
    [into EXCEPT !.BuildType = IF "buildType" \in DOMAIN obj THEN obj.buildType ELSE @,
                 !.ConfigSource = IF "invocation" \in DOMAIN obj
                                  THEN obj.invocation.configSource ELSE @,
                 !.Deps = IF "materials" \in DOMAIN obj THEN obj.materials ELSE @]

\* json.Unmarshal of a predicate object into the *SLSAPredicateV1 the
\* attestation holds: the struct's members are build_definition and
\* run_details; any other member of the object is skipped.
DecodePredicateV1(obj, into) ==
    IF "build_definition" \in DOMAIN obj
    THEN [into EXCEPT !.BuildType = obj.build_definition.build_type,
                      !.Deps = obj.build_definition.resolved_dependencies]
    ELSE into

\* json.Unmarshal(data, &att): the header members, and the predicate object
\* into the predicate att already holds.
DecodeAttestation(doc, att) ==
    [Subject |-> doc.subject,
     PredicateType |-> doc.predicateType,
     Predicate |-> IF att.Predicate.Kind = "v1"
                   THEN DecodePredicateV1(doc.predicate, att.Predicate)
                   ELSE DecodePredicateV02(doc.predicate, att.Predicate)]

(* ------------------------------------------------------------------ *)
(* start attestation: the draft                                        *)
(* ------------------------------------------------------------------ *)

\* VCS locators given to `start` (--vcs-url or probed from the working
\* directory): none, a repository, a repository at a commit.
VCSInputs ==
    {NoURI, RepoURI, [RepoURI EXCEPT !.Suffix = Commit40]}

\* The material `start` makes of the VCS locator: the text before '@' with
\* the commit as sha1 when 40 characters follow it, else the whole locator.
StartMaterial(url) ==
    IF Len(url.Suffix) = 40
    THEN [URI |-> [url EXCEPT !.Suffix = ""], Digest |-> [a \in {"sha1"} |-> url.Suffix]]
    ELSE [URI |-> url, Digest |-> NoDigest]

\* The statement `start` emits: no subjects, a fresh v0.2 predicate, the
\* VCS locator as its one material when there is one, and the config
\* source of the options (none given: an empty URI, no digest).
StartDraft(url) ==
    LET pred == SetConfigSource(
                    [NewSLSAPredicate EXCEPT
                        !.Deps = IF url = NoURI THEN <<>> ELSE <<StartMaterial(url)>>],
                    NoConfigSource)
    IN  [Subject |-> <<>>, PredicateType |-> PredicateTypeOf(pred), Predicate |-> pred]

\* `start attestation` after Snap and SaveSnapshots: build the draft and
\* write its JSON.
StartAttestation ==
    /\ apc = "start"
    /\ spc = "saved"
    /\ draftFile' = EncodeAttestationV02(StartDraft(vcsURL))
    /\ apc' = "emitted"
    /\ UNCHANGED <<slsaVersion, vcsURL, depURIs, continuing, draftAtt, statement, prevStatement>>
    /\ UNCHANGED <<deltaVars, watchVars, snapVars, extVars>>

\* An encoder using another alphabet than the one attest decodes with.
Base64EncodeURL(data) == [Encoding |-> "base64.URLEncoding", Data |-> data]

\* base64.StdEncoding.EncodeToString: text in the standard alphabet that
\* stands for the bytes given.
Base64Encode(data) == [Encoding |-> "base64.StdEncoding", Data |-> data]

\* base64.StdEncoding.DecodeString: the bytes the text stands for, or an
\* error for text that is not in the standard alphabet.
Base64Decode(text) ==
    IF text.Encoding = "base64.StdEncoding"
    THEN [Err |-> FALSE, Data |-> text.Data]
    ELSE [Err |-> TRUE, Data |-> <<>>]

\* The end of `start attestation` when --pubsub is given: the state file is
\* read if it exists at the resolved path, the StartMessage is built of the
\* run URL, the emitted JSON and the state file in base64 and the artifact
\* sources, and PublishToTopic sends it. A topic that does not split into
\* four parts at '/', or a failure of the service, ends the command with an
\* error.
PublishToTopic ==
    /\ apc = "emitted"
    /\ pubsub.Topic # ""
    /\ \E ok \in BOOLEAN :
        LET i1 == StringIndex(pubsub.Topic, "/", 1)
            i2 == IF i1 = 0 THEN 0 ELSE StringIndex(pubsub.Topic, "/", i1 + 1)
            i3 == IF i2 = 0 THEN 0 ELSE StringIndex(pubsub.Topic, "/", i2 + 1)
            i4 == IF i3 = 0 THEN 0 ELSE StringIndex(pubsub.Topic, "/", i3 + 1)
            sdata == IF pubsub.StatePath /\ file.Exists THEN file.Data ELSE <<>>
            message == [SpecURL |-> specURL,
                        Attestation |-> Base64Encode(draftFile),
                        Snapshots |-> Base64Encode(sdata),
                        Artifacts |-> stores1]
        IN  IF ok /\ i3 # 0 /\ i4 = 0
            THEN /\ pubsub' = [pubsub EXCEPT !.Messages = Append(@, message)]
                 /\ apc' = "published"
            ELSE /\ apc' = "publishfailed"
                 /\ UNCHANGED pubsub
    /\ UNCHANGED <<slsaVersion, vcsURL, depURIs, continuing, draftFile, draftAtt, statement,
                   prevStatement>>
    /\ UNCHANGED <<deltaVars, watchVars, snapVars>>
    /\ UNCHANGED <<registry, specURL, gcs, output, oci, fan>>

(* ------------------------------------------------------------------ *)
(* attest: LoadAttestation, CollectArtifacts, AttestRun                *)
(* ------------------------------------------------------------------ *)

\* Watcher.LoadAttestation, which attest reaches when Watch returned nil: a
\* no-op for an empty path; else the file is read (which may fail) and
\* unmarshalled into an attestation of the configured version and kept as
\* the draft.
LoadAttestation ==
    /\ apc = "emitted"
    /\ wpc = "returned"
    /\ werr = "nil"
    /\ \E ok \in BOOLEAN :
        IF ok \/ ~continuing
        THEN /\ draftAtt' = IF continuing
                            THEN DecodeAttestation(draftFile, NewAttestation(slsaVersion))
                            ELSE draftAtt
             /\ apc' = "draftloaded"
        ELSE /\ apc' = "failed"
             /\ UNCHANGED draftAtt
    /\ UNCHANGED <<slsaVersion, vcsURL, depURIs, continuing, draftFile, statement, prevStatement>>
    /\ UNCHANGED <<deltaVars, watchVars, snapVars, extVars>>

\* Builder.ArtifactStores: the GCB driver made by NewFromMoniker has no
\* project or build id and names no store; the workflow driver names the
\* artifacts of the run.
NativeStores(d) == IF d = "github" THEN <<NativeStoreURL>> ELSE <<>>

\* Store.ReadArtifacts: the artifacts of the store's snapshot, in the order
\* a range over the map yields them.
ReadArtifacts(snp, order) == [i \in DOMAIN order |-> snp[order[i]]]

\* Mutation of CollectFrom: each list read is put in front of the lists
\* read before it.
RECURSIVE CollectFromPrepending(_, _, _, _)
CollectFromPrepending(stores, st, orders, from) ==
    IF from > Len(stores)
    THEN <<>>
    ELSE CollectFromPrepending(stores, st, orders, from + 1) \o ReadArtifacts(st[stores[from]], orders[from])

\* Concatenation of the lists read from stores[from..], given the range
\* order taken in each.
RECURSIVE CollectFrom(_, _, _, _)
CollectFrom(stores, st, orders, from) ==
    IF from > Len(stores)
    THEN <<>>
    ELSE ReadArtifacts(st[stores[from]], orders[from]) \o CollectFrom(stores, st, orders, from + 1)

\* Watcher.CollectArtifacts: r.Artifacts is emptied and then takes what
\* every configured store and then every native store of the builder holds
\* now. The first store that cannot be read ends the call, and attest,
\* with what was read before it. A caller may collect a second time.
CollectArtifacts ==
    /\ apc \in {"draftloaded", "collected"}
    /\ \/ spc = "loaded"
       \/ spc = "saved" /\ ~(continuing /\ file.Exists)
    /\ LET all == stores2 \o NativeStores(driver)
       IN  \E n \in 0..Len(all) :
            \E orders \in [1..n -> UNION {RangeOrders(storage[all[i]]) : i \in 1..n}] :
                /\ \A i \in 1..n : orders[i] \in RangeOrders(storage[all[i]])
                /\ run' = [run EXCEPT !.Artifacts = CollectFrom(SubSeq(all, 1, n), storage, orders, 1)]
                /\ apc' = IF n < Len(all) THEN "failed"
                          ELSE IF apc = "draftloaded" THEN "collected" ELSE "collectedagain"
    /\ UNCHANGED <<slsaVersion, vcsURL, depURIs, continuing, draftFile, draftAtt, statement, prevStatement>>
    /\ UNCHANGED <<driver, waitForBuild, wpc, werr, refreshes, iters, entryRunning, cancelled>>
    /\ UNCHANGED <<deltaVars, snapVars, extVars>>

\* The build type each driver's BuildPredicate sets on the predicate.
DriverBuildType(d, pred) ==
    IF d = "gcb"
    THEN "https://cloudbuild.googleapis.com/CloudBuildYaml@v1"
    ELSE IF pred.Kind = "v0.2"
         THEN "https://github.com/Attestations/GitHubActionsWorkflow@v1"
         ELSE "https://actions.github.io/buildtypes/workflow/v1"

\* GCB.BuildPredicate writes into the nil Digest map of a fresh
\* ResourceDescriptor when the build carries the substitution COMMIT_SHA:
\* a run-time panic.
GCBBuildPredicatePanics(r) == "COMMIT_SHA" \in r.SystemData.Subs

\* The config source GCB.BuildPredicate reaches SetConfigSource with: the
\* Cloud Source repository of REPO_NAME under the driver's project id
\* (empty in a driver made by NewFromMoniker), replaced by the repository
\* of the build's trigger when the trigger can be looked up.
GCBConfigSource(r) ==
    LET build == r.SystemData
        fromSubs == IF "REPO_NAME" \in build.Subs
                    THEN [Base |-> "git+https://source.developers.google.com/p//r/repo",
                          Suffix |-> ""]
                    ELSE NoURI
    IN  [URI |-> IF build.Trigger = "github" THEN RepoURI ELSE fromSubs,
         Digest |-> NoDigest]

\* The config source of GitHubWorkflow.BuildPredicate: the repository, and
\* the head commit of the run as sha1 and gitCommit.
GitHubConfigSource(r) ==
    LET parsed == parseGitHubURL(r.SpecURL)
    IN  [URI |-> [Base |-> "git+https://github.com/" \o parsed.Org \o "/" \o parsed.Repo,
                  Suffix |-> ""],
         Digest |-> [a \in {"sha1", "gitCommit"} |-> Commit40]]

\* SetBuildConfig: the v0.2 predicate keeps the map, the v1 predicate's
\* method has an empty body.
SetBuildConfig(pred, conf) ==
    IF pred.Kind = "v1" THEN pred ELSE [pred EXCEPT !.BuildConfig = conf]

\* The buildconfig map of GCB.BuildPredicate. The loop over r.Steps stores
\* append(steps, stepData{...}) under "steps" and never assigns the local
\* slice `steps`; after the loop the map takes that slice, still empty.
GCBBuildConfig(r) ==
    LET steps == <<>>
    IN  [Set |-> TRUE, steps |-> steps]

\* The driver's BuildPredicate when it returns: the draft is reused, given
\* the build type, by the GCB driver the build config, and the config
\* source; neither driver touches its dependency list.
DriverBuildPredicate(d, r, draft) ==
    LET typed == [draft EXCEPT !.BuildType = DriverBuildType(d, draft)]
    IN  IF d = "gcb"
        THEN SetConfigSource(SetBuildConfig(typed, GCBBuildConfig(r)), GCBConfigSource(r))
        ELSE SetConfigSource(typed, GitHubConfigSource(r))

\* The switch of Builder.BuildPredicate on the text after the '@': a commit
\* when it is 40 characters long, a digest when it starts with "sha" (in
\* any case) and holds a ':', else unknown.
DependencyClass(commit) ==
    CASE Len(commit) = 40 -> "commit"
      [] HasPrefix(ToLower(commit), "sha") /\ StringIndex(commit, ":", 1) # 0 -> "digest"
      [] OTHER -> "uri"

\* The resource descriptor Builder.BuildPredicate makes of one dependency
\* string. A string without '@' keeps itself as the URI, with no digest.
DependencyDescriptor(uri) ==
    LET commit == uri.Suffix
        colon == StringIndex(commit, ":", 1)
        first == SubSeq(commit, 1, colon - 1)
        rest == SubSeq(commit, colon + 1, Len(commit))
        u == [uri EXCEPT !.Suffix = ""]
    IN  IF commit = ""
        THEN [URI |-> u, Digest |-> NoDigest, DownloadLocation |-> NoURI]
        ELSE CASE DependencyClass(commit) = "commit" ->
                    [URI |-> u,
                     Digest |-> [a \in {"sha1", "gitCommit"} |-> commit],
                     DownloadLocation |-> uri]
               [] DependencyClass(commit) = "digest" ->
                    [URI |-> u,
                     Digest |-> [a \in {ToLower(first)} |-> rest],
                     DownloadLocation |-> uri]
               [] OTHER ->
                    [URI |-> uri, Digest |-> NoDigest, DownloadLocation |-> NoURI]

RECURSIVE AddDependencies(_, _, _)
AddDependencies(pred, uris, from) ==
    IF from > Len(uris)
    THEN pred
    ELSE AddDependencies(AddDependency(pred, DependencyDescriptor(uris[from])), uris, from + 1)

\* Builder.BuildPredicate: the driver's predicate, then every dependency
\* URI, then the run's build point when it has one.
BuilderBuildPredicate(d, r, draft, uris) ==
    LET withDeps == AddDependencies(DriverBuildPredicate(d, r, draft), uris, 1)
    IN  IF r.BuildPoint # NoURI
        THEN AddDependency(withDeps,
                 [URI |-> r.BuildPoint,
                  Digest |-> [a \in {"sha1"} |-> r.BuildPoint.Suffix],
                  DownloadLocation |-> NoURI])
        ELSE withDeps

\* The subject AttestRun makes of a run artifact.
SubjectOf(a) == [Name |-> a.Path, Digest |-> a.Checksum]

\* What AttestRun returns: the draft when one was loaded, else a fresh
\* attestation of the configured version; with the builder's predicate, and
\* one subject appended per run artifact.
AttestRunResult(d, r, draft, version, uris) ==
    LET att == IF draft # NoAtt THEN draft ELSE NewAttestation(version)
        predicate == BuilderBuildPredicate(d, r, att.Predicate, uris)
    IN  [Subject |-> att.Subject \o [i \in DOMAIN r.Artifacts |-> SubjectOf(r.Artifacts[i])],
         PredicateType |-> PredicateTypeOf(predicate),
         Predicate |-> predicate]

\* Watcher.AttestRun, called once or again on the same watcher and run. The
\* draft is used through its pointer, so what is returned is also what the
\* watcher's draft now holds. A panic of the driver ends the process.
AttestRun ==
    /\ apc \in {"collected", "collectedagain", "attested"}
    /\ IF driver = "gcb" /\ GCBBuildPredicatePanics(run)
       THEN /\ apc' = "panicked"
            /\ UNCHANGED <<statement, prevStatement, draftAtt>>
       ELSE /\ statement' = AttestRunResult(driver, run, draftAtt, slsaVersion, depURIs)
            /\ prevStatement' = statement
            /\ draftAtt' = IF draftAtt # NoAtt THEN statement' ELSE draftAtt
            /\ apc' = IF apc = "attested" THEN "attestedagain" ELSE "attested"
    /\ UNCHANGED <<slsaVersion, vcsURL, depURIs, continuing, draftFile>>
    /\ UNCHANGED <<deltaVars, watchVars, snapVars, extVars>>

\* The end of attest: the statement is serialized (ToJSON, or Sign, either
\* of which may fail) and only then written to the output path or printed.
WriteOutput ==
    /\ apc = "attested"
    /\ \E ok \in BOOLEAN :
        IF ok
        THEN /\ output' =
                  [Exists |-> TRUE,
                   Data |-> IF statement.Predicate.Kind = "v1"
                            THEN [subject |-> statement.Subject,
                                  predicateType |-> statement.PredicateType,
                                  predicate |->
                                    [build_definition |->
                                        [build_type |-> statement.Predicate.BuildType,
                                         resolved_dependencies |-> statement.Predicate.Deps]]]
                            ELSE EncodeAttestationV02(statement)]
             /\ apc' = "written"
        ELSE /\ apc' = "serializefailed"
             /\ UNCHANGED output
    /\ UNCHANGED <<slsaVersion, vcsURL, depURIs, continuing, draftFile, draftAtt, statement,
                   prevStatement>>
    /\ UNCHANGED <<deltaVars, watchVars, snapVars, registry, specURL, gcs, oci, fan, pubsub>>

AttestIdle ==
    /\ slsaVersion = "1.0"
    /\ vcsURL = NoURI
    /\ depURIs = <<>>
    /\ continuing = FALSE
    /\ draftFile = NoDoc
    /\ draftAtt = NoAtt
    /\ statement = NoAtt
    /\ prevStatement = NoAtt
    /\ apc = "idle"

(* ------------------------------------------------------------------ *)
(* The driver registries: driver.NewFromSpecURL and store.New          *)
(* ------------------------------------------------------------------ *)

\* URL schemes a spec URL may carry (url.Parse gives them in lower case).
Schemes ==
    {"gcb", "github", "file", "gs", "oci", "actions",
     "intoto+https", "spdx+file", "intoto", "http", "cyclonedx+file", ""}

\* A spec URL of the given scheme.
SpecURLOf(scheme) == scheme \o "://location/1"

\* driver.NewFromMoniker: the build system of a moniker, or an error.
NewFromMoniker(moniker) ==
    CASE moniker = "gcb" -> [Impl |-> "GCB", Err |-> ""]
      [] moniker = "github" -> [Impl |-> "GitHubWorkflow", Err |-> ""]
      [] OTHER -> [Impl |-> "none", Err |-> "unable to get driver from moniker"]

\* Mutation of StoreConstructor: the composed schemes are not looked at.
StoreConstructorPlainOnly(scheme) ==
    CASE scheme = "file" -> "NewDirectory"
      [] scheme = "gs" -> "NewGCS"
      [] scheme = "oci" -> "NewOCI"
      [] scheme = "actions" -> "NewActions"
      [] scheme = "gcb" -> "NewGCB"
      [] scheme = "github" -> "NewGithub"
      [] OTHER -> "none"

\* The two switches of store.New: the constructor the scheme selects, or
\* none. A composed scheme selects by the text before its first '+'.
StoreConstructor(scheme) ==
    CASE scheme = "file" -> "NewDirectory"
      [] scheme = "gs" -> "NewGCS"
      [] scheme = "oci" -> "NewOCI"
      [] scheme = "actions" -> "NewActions"
      [] scheme = "gcb" -> "NewGCB"
      [] scheme = "github" -> "NewGithub"
      [] OTHER ->
            LET plus == StringIndex(scheme, "+", 1)
                format == SubSeq(scheme, 1, plus - 1)
            IN  IF plus = 0 THEN "none"
                ELSE CASE format = "intoto" -> "NewAttestation"
                       [] format = "spdx" -> "NewSPDX"
                       [] OTHER -> "none"

\* store.New: the selected constructor runs and may itself fail; without a
\* constructor the URL is refused.
StoreNew(scheme, ok) ==
    LET c == StoreConstructor(scheme)
    IN  CASE c = "none" /\ StringIndex(scheme, "+", 1) = 0 ->
                [Impl |-> c, Err |-> "is not a storage URL"]
          [] c = "none" -> [Impl |-> c, Err |-> "initializing storage backend: unknown storage backend"]
          [] ~ok -> [Impl |-> c, Err |-> "initializing storage backend"]
          [] OTHER -> [Impl |-> c, Err |-> ""]

\* driver.NewFromSpecURL(specURL), as builder.New calls it for a watcher.
NewFromSpecURL ==
    /\ \E scheme \in Schemes :
        LET res == NewFromMoniker(scheme)
        IN  /\ registry' = [Call |-> "builder", Scheme |-> scheme, Impl |-> res.Impl,
                            Err |-> res.Err, Before |-> stores2]
            /\ driver' = IF res.Err = "" THEN scheme ELSE driver
            /\ specURL' = IF res.Err = "" THEN SpecURLOf(scheme) ELSE specURL
    /\ UNCHANGED <<gcs, output, oci, fan, pubsub>>
    /\ UNCHANGED <<run, waitForBuild, wpc, werr, refreshes, iters, entryRunning, cancelled>>
    /\ UNCHANGED <<deltaVars, snapVars, attestVars>>

\* Watcher.AddArtifactSource(specURL): the store is appended only when
\* store.New returned no error.
AddArtifactSource ==
    /\ Len(stores2) < MaxStores
    /\ \E scheme \in Schemes, ok \in BOOLEAN :
        LET res == StoreNew(scheme, ok)
        IN  /\ registry' = [Call |-> "store", Scheme |-> scheme, Impl |-> res.Impl,
                            Err |-> res.Err, Before |-> stores2]
            /\ stores2' = IF res.Err = "" THEN Append(stores2, SpecURLOf(scheme)) ELSE stores2
    /\ UNCHANGED <<storage, stores1, snaps1, file, snaps2, writes, spc, specURL, gcs, output, oci, fan, pubsub>>
    /\ UNCHANGED <<deltaVars, watchVars, attestVars>>

NoCall == [Call |-> "none", Scheme |-> "", Impl |-> "none", Err |-> "", Before |-> <<>>]

\* No constructor has been called in this state; the builder holds the
\* well-formed run URL of its driver.
RegistryIdle == registry = NoCall /\ specURL = RunURLOf(driver)

(* ------------------------------------------------------------------ *)
(* The GCS store driver: Snap synchronizes the bucket to a work         *)
(* directory and snapshots that directory                               *)
(* ------------------------------------------------------------------ *)

\* Objects the listing of the store's prefix release/ returns by name, and
\* objects under its inner prefix release/bin/, which the listing returns
\* as one prefix entry. All of them are objects the listing loop puts in
\* filesToSync.
GCSTopObjects == {"release/a", "release/b"}

GCSNestedObjects == {"release/bin/c", "release/bin/d"}

NoSnap == [none |-> TRUE]

\* storage.ObjectAttrs as the listing gives them: Size and ContentType.
GCSObjectAttrs == [Size : {0, 1}, ContentType : {"text/plain", "application/octet-stream"}]

\* The objects of a listing that reach filesToSync: a named object is
\* passed over (continue) when its Size is above zero and its ContentType
\* is text/plain, and appended otherwise.
GCSFilesToSync(listed, attrs) ==
    {f \in listed : ~(attrs[f].Size > 0 /\ attrs[f].ContentType = "text/plain")}

\* syncGSFile(filePath) as it leaves the work directory: the local file is
\* created before the download, so a failed download leaves a file that
\* lacks content.
SyncedFile(workDir, f, ok) ==
    [x \in DOMAIN workDir \cup {f} |->
        IF x = f THEN (IF ok THEN "whole" ELSE "partial") ELSE workDir[x]]

\* The loop at the end of GCS.Snap: the directory snapshot of the work
\* directory, each path rewritten to gs://<bucket>/<path in the work dir>.
GCSSnapshotOf(workDir) ==
    {[Path |-> "gs://bucket/" \o f, Content |-> workDir[f]] : f \in DOMAIN workDir}

\* GCS.Snap is called: syncGCSPrefix lists the prefix, and on meeting the
\* entry of the inner prefix calls itself for it; the inner call lists the
\* inner objects and starts its errgroup.
GCSSnapCall ==
    /\ gcs.pc = "new"
    /\ gcs' = [gcs EXCEPT !.pc = "nested",
                          !.Todo = GCSFilesToSync(gcs.Objects \cap GCSNestedObjects, gcs.Attrs),
                          !.GroupErr = FALSE]
    /\ UNCHANGED <<deltaVars, watchVars, snapVars, attestVars, registry, specURL, output, oci, fan, pubsub>>

\* One goroutine of the running errgroup: syncGSFile of one listed file.
\* The group has no context, so every goroutine runs whatever the others
\* return, and Wait gives the first error.
GCSSyncFile ==
    /\ gcs.pc \in {"nested", "top"}
    /\ \E f \in gcs.Todo :
        gcs' = [gcs EXCEPT !.Todo = gcs.Todo \ {f},
                           !.WorkDir = SyncedFile(gcs.WorkDir, f, f \notin gcs.Fails),
                           !.GroupErr = gcs.GroupErr \/ f \in gcs.Fails]
    /\ UNCHANGED <<deltaVars, watchVars, snapVars, attestVars, registry, specURL, output, oci, fan, pubsub>>

\* wg.Wait of the inner call returns; the outer loop does not read the
\* value of gcs.syncGCSPrefix(ctx, attrs.Prefix, seen) and continues, and
\* after the listing starts the errgroup of its own files.
GCSNestedReturn ==
    /\ gcs.pc = "nested"
    /\ gcs.Todo = {}
    /\ gcs' = [gcs EXCEPT !.pc = "top",
                          !.Todo = GCSFilesToSync(gcs.Objects \cap GCSTopObjects, gcs.Attrs),
                          !.GroupErr = FALSE]
    /\ UNCHANGED <<deltaVars, watchVars, snapVars, attestVars, registry, specURL, output, oci, fan, pubsub>>

\* wg.Wait of the outer call returns and GCS.Snap ends: with the error, or
\* with the snapshot of the work directory.
GCSSnapReturn ==
    /\ gcs.pc = "top"
    /\ gcs.Todo = {}
    /\ gcs' = IF gcs.GroupErr
              THEN [gcs EXCEPT !.pc = "returned", !.Err = "synching bucket: synching files"]
              ELSE [gcs EXCEPT !.pc = "returned", !.Snap = GCSSnapshotOf(gcs.WorkDir)]
    /\ UNCHANGED <<deltaVars, watchVars, snapVars, attestVars, registry, specURL, output, oci, fan, pubsub>>

\* OCI.Snap: crane.ListTags of <repository>/<image>; on an error the
\* error is returned, else every tag t is stored under "oci://" + t as the
\* artifact whose path is oci://<repository>/<image>:<t>, with no checksum
\* and the zero time.
OCISnap ==
    /\ oci.pc = "new"
    /\ oci' = IF oci.ListFails
              THEN [oci EXCEPT !.pc = "returned", !.Err = "fetching tags from registry"]
              ELSE [oci EXCEPT !.pc = "returned",
                               !.Snap = [k \in {"oci://" \o t : t \in oci.Tags} |->
                                   LET t == CHOOSE x \in oci.Tags : "oci://" \o x = k
                                   IN  [Path |-> "oci://" \o oci.Repository \o "/" \o oci.Image
                                                 \o ":" \o t,
                                        Checksum |-> EmptyMap,
                                        Time |-> ZeroTime]]]
    /\ UNCHANGED <<deltaVars, watchVars, snapVars, attestVars>>
    /\ UNCHANGED <<registry, specURL, gcs, output, fan, pubsub>>

\* Largest number of entries of the artifact manifest of a build.
MaxTasks == 3

\* A Lock that never waits.
mtxFreeAlways(holder) == TRUE

\* mtx.Lock() returns only while no goroutine holds the mutex (0: nobody).
mtxFree(holder) == holder = 0

\* One step of one goroutine of the errgroup of GCB.readArtifacts. It
\* downloads the object, reads its attributes and hashes the file, and
\* returns the error if any of these fails; else it locks the mutex,
\* appends its artifact to the shared slice (append reads the slice and
\* then assigns the longer one) and unlocks.
readArtifactsTask ==
    /\ fan.pc = "running"
    /\ \E i \in DOMAIN fan.Task :
        \/ /\ fan.Task[i] = "run"
           /\ fan' = [fan EXCEPT !.Task[i] = IF i \in fan.Fails THEN "failed" ELSE "lock"]
        \/ /\ fan.Task[i] = "lock"
           /\ mtxFree(fan.Mutex)
           /\ fan' = [fan EXCEPT !.Task[i] = "read", !.Mutex = i]
        \/ /\ fan.Task[i] = "read"
           /\ fan' = [fan EXCEPT !.Task[i] = "write", !.Local[i] = fan.Artifacts]
        \/ /\ fan.Task[i] = "write"
           /\ fan' = [fan EXCEPT !.Task[i] = "unlock",
                                 !.Artifacts = Append(fan.Local[i], FileArtifact(fan.Manifest[i], 1))]
        \/ /\ fan.Task[i] = "unlock"
           /\ fan' = [fan EXCEPT !.Task[i] = "done", !.Mutex = 0]
    /\ UNCHANGED <<deltaVars, watchVars, snapVars, attestVars>>
    /\ UNCHANGED <<registry, specURL, gcs, output, oci, pubsub>>

\* wg.Wait() returns once every goroutine has returned: an error of one of
\* them makes readArtifacts return nil and the error, else it returns the
\* shared slice.
readArtifactsWait ==
    /\ fan.pc = "running"
    /\ \A i \in DOMAIN fan.Task : fan.Task[i] \in {"done", "failed"}
    /\ fan' = IF \E i \in DOMAIN fan.Task : fan.Task[i] = "failed"
              THEN [fan EXCEPT !.pc = "returned", !.Err = "hashing artifacts"]
              ELSE [fan EXCEPT !.pc = "returned", !.Result = fan.Artifacts]
    /\ UNCHANGED <<deltaVars, watchVars, snapVars, attestVars>>
    /\ UNCHANGED <<registry, specURL, gcs, output, oci, pubsub>>

\* No GCS store in this state.
NoGCS ==
    [pc |-> "idle", Objects |-> {}, Attrs |-> <<>>, Fails |-> {}, Todo |-> {}, GroupErr |-> FALSE,
     WorkDir |-> <<>>, Err |-> "", Snap |-> NoSnap]

\* No store driver at work in this state: no GCS store, no OCI store, no
\* readArtifacts of the GCB store.
GCSIdle ==
    /\ gcs = NoGCS
    /\ oci = [pc |-> "idle", Repository |-> "", Image |-> "", Tags |-> {}, ListFails |-> FALSE,
              Err |-> "", Snap |-> EmptyMap]
    /\ fan = [pc |-> "idle", Manifest |-> <<>>, Fails |-> {}, Task |-> <<>>, Local |-> <<>>,
              Mutex |-> 0, Artifacts |-> <<>>, Err |-> "", Result |-> <<>>]

DeltaIdle ==
    /\ pre = EmptyMap
    /\ post = EmptyMap
    /\ todo = {}
    /\ results = <<>>
    /\ dpc = "idle"

WatchIdle ==
    /\ driver = "gcb"
    /\ run = NewRun
    /\ waitForBuild = TRUE
    /\ wpc = "idle"
    /\ werr = "nil"
    /\ refreshes = 0
    /\ iters = 0
    /\ entryRunning = FALSE
    /\ cancelled = FALSE

InitDelta ==
    /\ pre \in Snapshot
    /\ post \in Snapshot
    /\ todo = DOMAIN post
    /\ results = <<>>
    /\ dpc = "loop"
    /\ WatchIdle
    /\ SnapIdle
    /\ AttestIdle
    /\ RegistryIdle
    /\ GCSIdle
    /\ output = NoFile
    /\ pubsub = [Topic |-> "", StatePath |-> FALSE, Messages |-> <<>>]

NextDelta ==
    \/ DeltaStep
    \/ DeltaReturn

SpecDelta == InitDelta /\ [][NextDelta]_vars

\* watcher.New sets WaitForBuild = true; the attest command overwrites it
\* with the --wait flag.
InitWatch ==
    /\ DeltaIdle
    /\ driver \in Drivers
    /\ registry = NoCall
    /\ specURL \in RunURLs(driver)
    /\ GCSIdle
    /\ output = NoFile
    /\ pubsub = [Topic |-> "", StatePath |-> FALSE, Messages |-> <<>>]
    /\ run = NewRun
    /\ waitForBuild \in BOOLEAN
    /\ wpc = "start"
    /\ werr = "nil"
    /\ refreshes = 0
    /\ iters = 0
    /\ entryRunning = FALSE
    /\ cancelled = FALSE
    /\ SnapIdle
    /\ AttestIdle

NextWatch ==
    \/ GetRun
    \/ WatchCheck
    \/ WatchRefresh
    \/ WatchSleep
    \/ Cancel

Spec == InitWatch /\ [][NextWatch]_vars

\* The statuses after which a backend reports nothing else.
BackendTerminal(d, data) ==
    IF d = "gcb"
    THEN data.Status \in {"SUCCESS"} \cup GCBFailedStatuses
    ELSE data.Status = "completed"

\* WatchRefresh against a backend that has reached a terminal status by
\* the time of the last poll followed (poll number MaxPolls).
WatchRefreshFinishing ==
    /\ WatchRefresh
    /\ refreshes' = MaxPolls => (werr' # "nil" \/ BackendTerminal(driver, run'.SystemData))

NextWatchLive ==
    \/ GetRun
    \/ WatchCheck
    \/ WatchRefreshFinishing
    \/ WatchSleep

\* Watch is sequential code that keeps running: each step of its loop is
\* taken once it is enabled.
SpecWatchLive ==
    /\ InitWatch
    /\ [][NextWatchLive]_vars
    /\ WF_vars(WatchCheck)
    /\ WF_vars(WatchRefreshFinishing)
    /\ WF_vars(WatchSleep)

\* The drivers' API on its own: GetRun, then RefreshRun any number of times.
InitRun ==
    /\ InitWatch
    /\ waitForBuild = TRUE

NextRun ==
    \/ GetRun
    \/ RefreshRunCall

SpecRun == InitRun /\ [][NextRun]_vars

\* What the storage locations hold at the start: each configurable
\* location nothing or one file, the run's own artifact store nothing.
InitialStorage ==
    {st \in [StoreURLs \cup {NativeStoreURL} -> {EmptyMap, [p \in {"a.txt"} |-> FileArtifact(p, 1)]}] :
        st[NativeStoreURL] = EmptyMap}

\* Saving the snapshots of one watcher and loading them into another.
InitSnap ==
    /\ DeltaIdle
    /\ WatchIdle
    /\ storage \in InitialStorage
    /\ stores1 \in StoreLists
    /\ snaps1 = <<>>
    /\ file = NoFile
    /\ stores2 \in StoreLists
    /\ snaps2 = <<>>
    /\ writes = 0
    /\ spc = "snap"
    /\ AttestIdle
    /\ RegistryIdle
    /\ GCSIdle
    /\ output = NoFile
    /\ pubsub = [Topic |-> "", StatePath |-> FALSE, Messages |-> <<>>]

NextSnap ==
    \/ WatcherSnap
    \/ StorageWrite
    \/ SaveSnapshots
    \/ LoadSnapshots

SpecSnap == InitSnap /\ [][NextSnap]_vars

\* Runs as Watch hands them on: GetRun's result for a backend that has
\* finished.
FinishedRuns(d) ==
    {RefreshRun(d, [NewRun EXCEPT !.SpecURL = RunURLOf(d)], resp) : resp \in
        {b \in BackendResponses(d) :
            /\ b.Timed
            /\ b.Status \in {"SUCCESS", "completed"}
            /\ d = "github" => b.Conclusion = "success"}}

\* start attestation, the build, then attest with the same artifact stores.
InitAttest ==
    /\ DeltaIdle
    /\ driver \in Drivers
    /\ run \in FinishedRuns(driver)
    /\ waitForBuild = TRUE
    /\ wpc = "returned"
    /\ werr = "nil"
    /\ refreshes = 0
    /\ iters = 0
    /\ entryRunning = FALSE
    /\ cancelled = FALSE
    /\ storage \in InitialStorage
    /\ stores1 \in StoreLists
    /\ snaps1 = <<>>
    /\ file = NoFile
    /\ stores2 = stores1
    /\ snaps2 = <<>>
    /\ writes = 0
    /\ spc = "snap"
    /\ slsaVersion \in SLSAVersions
    /\ vcsURL \in VCSInputs
    /\ depURIs \in {<<>>, <<RepoURI>>}
    /\ continuing \in BOOLEAN
    /\ draftFile = NoDoc
    /\ draftAtt = NoAtt
    /\ statement = NoAtt
    /\ prevStatement = NoAtt
    /\ apc = "start"
    /\ RegistryIdle
    /\ GCSIdle
    /\ output = NoFile
    /\ pubsub = [Topic |-> "", StatePath |-> FALSE, Messages |-> <<>>]

NextAttest ==
    \/ WatcherSnap
    \/ SaveSnapshots
    \/ StartAttestation
    \/ StorageWrite
    \/ LoadAttestation
    \/ LoadSnapshots
    \/ CollectArtifacts
    \/ AttestRun

SpecAttest == InitAttest /\ [][NextAttest]_vars

\* Largest number of dependency strings given to one attest.
MaxDeps == 2

\* A 40-character text that is not hexadecimal.
NonHex40 == "zzzzzzzzzzzzzzzzzzzzzzzzzzzzzzzzzzzzzzzz"

\* Dependency strings (--dependency, --vcs-url): a repository alone and
\* followed by '@' and a commit, a 40-character text, digests, a tag, a
\* word starting with sha; and an image reference.
DepStrings ==
    [Base : {RepoURI.Base},
     Suffix : {"", Commit40, NonHex40, "sha256:abcd", "SHA512:ef", "v1.0", "shallow"}]
    \cup {[Base |-> "oci://registry/img", Suffix |-> ""]}

DepLists == UNION {[1..n -> DepStrings] : n \in 0..MaxDeps}

\* build.Steps of a Cloud Build build: none, one or two steps, as those of
\* the README's example.
BuildStepLists ==
    LET clone == [Name |-> "gcr.io/cloud-builders/git",
                  Args |-> <<"clone", "https://github.com/kubernetes/release">>]
        make == [Name |-> "gcr.io/cloud-builders/make", Args |-> <<"release">>]
    IN  {<<>>, <<clone>>, <<clone, make>>}

\* What a Cloud Build build started by a trigger adds to the answer: the
\* substitutions of the trigger, and the trigger that GCB.TriggerDetails
\* finds to be of a GitHub repository or fails to resolve.
TriggeredBuilds(d) ==
    IF d = "gcb"
    THEN [Subs : SUBSET {"COMMIT_SHA", "REPO_NAME"}, Trigger : {"none", "github", "unresolved"},
          Steps : BuildStepLists]
    ELSE [Subs : {{}}, Trigger : {"none"}, Steps : {<<>>}]

\* attest from the point where the run's artifacts are collected, for any
\* list of dependency strings, with or without a draft of `start`.
InitPredicate ==
    /\ DeltaIdle
    /\ SnapIdle
    /\ driver \in Drivers
    /\ \E r \in FinishedRuns(driver), arts \in {<<>>, <<FileArtifact("a.txt", 1)>>},
          build \in TriggeredBuilds(driver) :
            run = [r EXCEPT !.Artifacts = arts,
                            !.Steps = GCBRefreshSteps(r.Steps, build.Steps),
                            !.SystemData.Steps = build.Steps,
                            !.SystemData.Subs = build.Subs,
                            !.SystemData.Trigger = build.Trigger]
    /\ waitForBuild = TRUE
    /\ wpc = "returned"
    /\ werr = "nil"
    /\ refreshes = 0
    /\ iters = 0
    /\ entryRunning = FALSE
    /\ cancelled = FALSE
    /\ slsaVersion \in SLSAVersions
    /\ depURIs \in DepLists
    /\ continuing \in BOOLEAN
    /\ vcsURL \in IF continuing THEN VCSInputs ELSE {NoURI}
    /\ draftFile = IF continuing THEN EncodeAttestationV02(StartDraft(vcsURL)) ELSE NoDoc
    /\ draftAtt = IF continuing
                  THEN DecodeAttestation(draftFile, NewAttestation(slsaVersion))
                  ELSE NoAtt
    /\ statement = NoAtt
    /\ prevStatement = NoAtt
    /\ apc = "collected"
    /\ RegistryIdle
    /\ GCSIdle
    /\ output = NoFile
    /\ pubsub = [Topic |-> "", StatePath |-> FALSE, Messages |-> <<>>]

NextPredicate == AttestRun

SpecPredicate == InitPredicate /\ [][NextPredicate]_vars

\* attest without --continue at the point where the build has finished and
\* the artifacts are to be collected, for any store list and any content
\* of the storage locations.
InitCollect ==
    /\ DeltaIdle
    /\ driver \in Drivers
    /\ run \in FinishedRuns(driver)
    /\ waitForBuild = TRUE
    /\ wpc = "returned"
    /\ werr = "nil"
    /\ refreshes = 0
    /\ iters = 0
    /\ entryRunning = FALSE
    /\ cancelled = FALSE
    /\ storage \in [StoreURLs \cup {NativeStoreURL} -> StoreContents]
    /\ stores1 = <<>>
    /\ snaps1 = <<>>
    /\ file = NoFile
    /\ stores2 \in StoreLists
    /\ snaps2 = <<>>
    /\ writes = 0
    /\ spc = "saved"
    /\ slsaVersion = "1.0"
    /\ vcsURL = NoURI
    /\ depURIs = <<>>
    /\ continuing = FALSE
    /\ draftFile = NoDoc
    /\ draftAtt = NoAtt
    /\ statement = NoAtt
    /\ prevStatement = NoAtt
    /\ apc = "draftloaded"
    /\ RegistryIdle
    /\ GCSIdle
    /\ output = NoFile
    /\ pubsub = [Topic |-> "", StatePath |-> FALSE, Messages |-> <<>>]

NextCollect == CollectArtifacts

SpecCollect == InitCollect /\ [][NextCollect]_vars

\* The attest command from its first call of the build system on: the
\* watcher has its stores, and a draft and a state file of an earlier
\* `start` may be there.
InitAttestCmd ==
    /\ DeltaIdle
    /\ driver \in Drivers
    /\ run = NewRun
    /\ waitForBuild = TRUE
    /\ wpc = "start"
    /\ werr = "nil"
    /\ refreshes = 0
    /\ iters = 0
    /\ entryRunning = FALSE
    /\ cancelled = FALSE
    /\ storage \in InitialStorage
    /\ stores2 \in StoreLists
    /\ stores1 \in {stores2, <<>>}
    /\ snaps1 = <<>>
    /\ file \in {NoFile, [Exists |-> TRUE, Data |-> EncodeSnapshots(<<SnapSet(stores1, storage)>>)]}
    /\ snaps2 = <<>>
    /\ writes = 0
    /\ spc = "saved"
    /\ slsaVersion \in {"1.0", "0.2"}
    /\ vcsURL = RepoURI
    /\ depURIs = <<>>
    /\ continuing \in BOOLEAN
    /\ draftFile = IF continuing THEN EncodeAttestationV02(StartDraft(vcsURL)) ELSE NoDoc
    /\ draftAtt = NoAtt
    /\ statement = NoAtt
    /\ prevStatement = NoAtt
    /\ apc = "emitted"
    /\ RegistryIdle
    /\ GCSIdle
    /\ output = NoFile
    /\ pubsub = [Topic |-> "", StatePath |-> FALSE, Messages |-> <<>>]

SpecAttestCmd ==
    InitAttestCmd /\ [][\/ GetRun
                        \/ WatchCheck
                        \/ WatchRefresh
                        \/ WatchSleep
                        \/ LoadAttestation
                        \/ LoadSnapshots
                        \/ CollectArtifacts
                        \/ AttestRun
                        \/ WriteOutput]_vars

\* The start command with its options: the artifact sources, the VCS
\* locator, whether a state path is resolved (at which an older state file
\* may lie) and the topic.
InitStart ==
    /\ DeltaIdle
    /\ WatchIdle
    /\ storage \in InitialStorage
    /\ stores1 \in StoreLists
    /\ snaps1 = <<>>
    /\ file \in {NoFile, [Exists |-> TRUE, Data |-> EncodeSnapshots(<<EmptyMap>>)]}
    /\ stores2 = <<>>
    /\ snaps2 = <<>>
    /\ writes = 0
    /\ spc = "snap"
    /\ slsaVersion = "0.2"
    /\ vcsURL \in VCSInputs
    /\ depURIs = <<>>
    /\ continuing = FALSE
    /\ draftFile = NoDoc
    /\ draftAtt = NoAtt
    /\ statement = NoAtt
    /\ prevStatement = NoAtt
    /\ apc = "start"
    /\ RegistryIdle
    /\ GCSIdle
    /\ output = NoFile
    /\ \E topic \in {"", "projects/p/topics/t", "topics/t"}, statePath \in BOOLEAN :
            pubsub = [Topic |-> topic, StatePath |-> statePath, Messages |-> <<>>]

\* The RunE of `start attestation`: one Snap; SaveSnapshots when
\* FinalSnapshotStatePath gives a path, and nothing in its place when it
\* gives none; the draft; the message.
SpecStart ==
    InitStart /\ [][\/ (Len(snaps1) = 0 /\ WatcherSnap)
                    \/ (Len(snaps1) = 1 /\ pubsub.StatePath /\ SaveSnapshots)
                    \/ (/\ Len(snaps1) = 1
                        /\ ~pubsub.StatePath
                        /\ spc = "snap"
                        /\ spc' = "saved"
                        /\ UNCHANGED <<storage, stores1, snaps1, file, stores2, snaps2, writes>>
                        /\ UNCHANGED <<deltaVars, watchVars, attestVars, extVars>>)
                    \/ StartAttestation
                    \/ PublishToTopic]_vars

\* A watcher being set up: its builder and then its artifact stores.
InitRegistry ==
    /\ DeltaIdle
    /\ driver = "none"
    /\ run = NewRun
    /\ waitForBuild = TRUE
    /\ wpc = "idle"
    /\ werr = "nil"
    /\ refreshes = 0
    /\ iters = 0
    /\ entryRunning = FALSE
    /\ cancelled = FALSE
    /\ SnapIdle
    /\ AttestIdle
    /\ RegistryIdle
    /\ GCSIdle
    /\ output = NoFile
    /\ pubsub = [Topic |-> "", StatePath |-> FALSE, Messages |-> <<>>]

NextRegistry ==
    \/ NewFromSpecURL
    \/ AddArtifactSource

SpecRegistry == InitRegistry /\ [][NextRegistry]_vars

\* One store driver about to snapshot. A GCS store over a bucket holding
\* any of the objects, of any size and content type, any of which may fail
\* to download, with an empty work directory (NewGCS made it); or an OCI
\* store NewOCI made of oci://<repository>/<image>, whose registry lists
\* any of the tags or fails; or a GCB store whose readArtifacts has read
\* the artifact manifest and started one goroutine per entry, any of which
\* may fail.
InitGCS ==
    /\ DeltaIdle
    /\ WatchIdle
    /\ SnapIdle
    /\ AttestIdle
    /\ registry = NoCall
    /\ specURL = RunURLOf(driver)
    /\ \/ /\ \E objects \in SUBSET (GCSTopObjects \cup GCSNestedObjects) :
             \E fails \in SUBSET objects, attrs \in [objects -> GCSObjectAttrs] :
                gcs = [NoGCS EXCEPT !.pc = "new", !.Objects = objects, !.Attrs = attrs,
                                    !.Fails = fails]
          /\ oci = [pc |-> "idle", Repository |-> "", Image |-> "", Tags |-> {},
                    ListFails |-> FALSE, Err |-> "", Snap |-> EmptyMap]
          /\ fan = [pc |-> "idle", Manifest |-> <<>>, Fails |-> {}, Task |-> <<>>, Local |-> <<>>,
                    Mutex |-> 0, Artifacts |-> <<>>, Err |-> "", Result |-> <<>>]
       \/ /\ gcs = NoGCS
          /\ \E repository \in {"ghcr.io", "registry.k8s.io/release"}, image \in {"app", "tool"} :
             \E tags \in SUBSET {"latest", "v1", "v2"}, listFails \in BOOLEAN :
                oci = [pc |-> "new", Repository |-> repository, Image |-> image, Tags |-> tags,
                       ListFails |-> listFails, Err |-> "", Snap |-> EmptyMap]
          /\ fan = [pc |-> "idle", Manifest |-> <<>>, Fails |-> {}, Task |-> <<>>, Local |-> <<>>,
                    Mutex |-> 0, Artifacts |-> <<>>, Err |-> "", Result |-> <<>>]
       \/ /\ gcs = NoGCS
          /\ oci = [pc |-> "idle", Repository |-> "", Image |-> "", Tags |-> {},
                    ListFails |-> FALSE, Err |-> "", Snap |-> EmptyMap]
          /\ \E n \in 0..MaxTasks :
             \E manifest \in [1..n -> {"gs://bucket/a", "gs://bucket/b"}], fails \in SUBSET (1..n) :
                fan = [pc |-> "running", Manifest |-> manifest, Fails |-> fails,
                       Task |-> [i \in 1..n |-> "run"], Local |-> [i \in 1..n |-> <<>>],
                       Mutex |-> 0, Artifacts |-> <<>>, Err |-> "", Result |-> <<>>]
    /\ output = NoFile
    /\ pubsub = [Topic |-> "", StatePath |-> FALSE, Messages |-> <<>>]

NextGCS ==
    \/ GCSSnapCall
    \/ GCSSyncFile
    \/ GCSNestedReturn
    \/ GCSSnapReturn
    \/ OCISnap
    \/ readArtifactsTask
    \/ readArtifactsWait

SpecGCS == InitGCS /\ [][NextGCS]_vars

(* ------------------------------------------------------------------ *)
(* Claims                                                              *)
(* ------------------------------------------------------------------ *)

\* C1: when Delta has returned, results holds exactly the artifacts of post
\* whose path is absent from pre, or whose time differs from pre's, or for
\* which an algorithm present in both entries has different values; each
\* of them once, in any order.
C1_DeltaExact ==
    LET changed == {p \in DOMAIN post :
                      \/ p \notin DOMAIN pre
                      \/ post[p].Time # pre[p].Time
                      \/ \E a \in DOMAIN pre[p].Checksum \cap DOMAIN post[p].Checksum :
                            pre[p].Checksum[a] # post[p].Checksum[a]}
    IN  dpc = "done" =>
            /\ {results[i] : i \in 1..Len(results)} = {post[p] : p \in changed}
            /\ Len(results) = Cardinality(changed)

\* C1 witness: Delta returned one artifact, included for a shared algorithm
\* that disagrees at equal times, and left out an entry of equal time whose
\* post checksums carry an algorithm pre does not have.
C1_Witness ==
    /\ dpc = "done"
    /\ Len(results) = 1
    /\ \E p \in DOMAIN pre \cap DOMAIN post, q \in DOMAIN pre \cap DOMAIN post :
        /\ p # q
        /\ results[1] = post[q]
        /\ pre[q].Time = post[q].Time
        /\ pre[p].Time = post[p].Time
        /\ DOMAIN pre[p].Checksum = {"SHA256"}
        /\ DOMAIN post[p].Checksum = {"SHA256", "sha1"}

\* C2: with WaitForBuild = true, Watch returns nil only when the run is not
\* running; every loop iteration that found the run running made exactly
\* one RefreshRun call; a run not running at entry is returned without any
\* RefreshRun call.
C2_WatchWaits ==
    waitForBuild =>
        /\ (wpc = "returned" /\ werr = "nil") => ~run.IsRunning
        /\ wpc \in {"check", "sleep", "returned"} => refreshes = iters
        /\ wpc = "refresh" => refreshes + 1 = iters
        /\ (wpc = "returned" /\ ~entryRunning) => refreshes = 0

\* C2 witness: Watch waited through two refreshes and returned nil.
C2_Witness ==
    /\ waitForBuild
    /\ wpc = "returned"
    /\ werr = "nil"
    /\ entryRunning
    /\ refreshes = 2

\* C7: with WaitForBuild = false, Watch makes at most one RefreshRun call.
C7_NoWaitSingleRefresh ==
    ~waitForBuild => refreshes <= 1

\* C8: once the cancellation signal has fired during the polling sleep, no
\* further RefreshRun is applied, the run is left as it is, and Watch
\* returns the cancellation cause.
C8_CancelStopsWatch ==
    [][cancelled =>
        /\ refreshes' = refreshes
        /\ run' = run
        /\ (wpc' = "returned" => werr' = "context canceled")]_vars

\* C9: at every point after GetRun and any sequence of RefreshRun calls, on
\* either driver, IsSuccess implies not IsRunning.
C9_SuccessNotRunning ==
    run.IsSuccess => ~run.IsRunning

\* C9 witness: a successful run that was running before, refreshed again
\* against a status the driver does not map.
C9_Witness ==
    /\ run.IsSuccess
    /\ entryRunning
    /\ refreshes >= 2
    /\ run.SystemData.Status = "STATUS_UNKNOWN"

\* C10: a run whose last refresh reported a finished backend status, and
\* which is therefore not running, has non-zero StartTime and EndTime.
C10_TerminalRunTimed ==
    ( /\ wpc = "check"
      /\ ~run.IsRunning
      /\ run.SystemData.Status \in {"SUCCESS", "completed"} \cup GCBFailedStatuses )
        => (run.StartTime # ZeroTime /\ run.EndTime # ZeroTime)

\* C4: once a non-empty list of snapshot sets has been saved, loading it
\* into a watcher configured with the same stores in the same order
\* succeeds and leaves that watcher with the saved list.
C4_SnapshotRoundTrip ==
    (spc \in {"loaded", "loadfailed"} /\ stores2 = stores1) =>
        (spc = "loaded" /\ snaps2 = snaps1)

\* C5: loading into a watcher whose store list differs from the one the
\* state was saved with, in length, order or spec URL, fails every time,
\* and a failed load leaves the watcher's snapshot list as it was.
C5_MismatchFails ==
    /\ (spc \in {"loaded", "loadfailed"} /\ stores2 # stores1) => spc = "loadfailed"
    /\ spc = "loadfailed" => snaps2 = <<>>

\* C3: when the saved pre-build snapshot sets were loaded, the subjects of
\* the final statement are the artifacts of the delta between the saved
\* set and what the stores hold at attest time (for the builder's own
\* stores, which have no saved snapshot, everything they hold): an
\* artifact present and unchanged since the saved set is not a subject.
C3_SubjectsAreDelta ==
    (apc = "attested" /\ spc = "loaded") =>
        LET S == snaps2[Len(snaps2)]
            native == NativeStores(driver)
            expected ==
                {SubjectOf(storage[u][p]) : <<u, p>> \in
                    {x \in (DOMAIN S) \X Paths :
                        /\ x[2] \in DOMAIN storage[x[1]]
                        /\ DeltaIncludes(S[x[1]], x[2], storage[x[1]][x[2]])}}
                \cup
                {SubjectOf(storage[u][p]) : <<u, p>> \in
                    {x \in {native[i] : i \in DOMAIN native} \X Paths :
                        x[2] \in DOMAIN storage[x[1]]}}
        IN  {statement.Subject[i] : i \in DOMAIN statement.Subject} = expected

\* C6: when attest completes the draft written by start, whatever SLSA
\* version is configured, every material URI of the draft is among the
\* dependencies of the final predicate and every subject of the draft is
\* among the final subjects.
C6_DraftKept ==
    (apc = "attested" /\ continuing) =>
        LET A == StartDraft(vcsURL)
        IN  /\ \A i \in DOMAIN A.Predicate.Deps :
                  \E j \in DOMAIN statement.Predicate.Deps :
                      statement.Predicate.Deps[j].URI = A.Predicate.Deps[i].URI
            /\ \A i \in DOMAIN A.Subject :
                  \E j \in DOMAIN statement.Subject : statement.Subject[j] = A.Subject[i]

\* C11: the flags of a run follow the status table of the last answer its
\* driver applied, whatever they were before. Cloud Build: SUCCESS gives
\* (success, not running), PENDING/QUEUED/WORKING (no success, running),
\* FAILURE/INTERNAL_ERROR/TIMEOUT/CANCELLED/EXPIRED (no success, not
\* running). Workflow: completed gives not running, conclusion success
\* gives success, failure or cancelled no success.
C11_StatusTable ==
    LET st == run.SystemData.Status
        cn == run.SystemData.Conclusion
    IN  /\ driver = "gcb" =>
            /\ st = "SUCCESS" => (run.IsSuccess /\ ~run.IsRunning)
            /\ st \in GCBRunningStatuses => (~run.IsSuccess /\ run.IsRunning)
            /\ st \in GCBFailedStatuses => (~run.IsSuccess /\ ~run.IsRunning)
        /\ driver = "github" =>
            /\ st = "completed" => ~run.IsRunning
            /\ cn = "success" => run.IsSuccess
            /\ cn \in {"failure", "cancelled"} => ~run.IsSuccess

\* C11 witness: a Cloud Build run that was running when first fetched is
\* refreshed against FAILURE and ends with neither flag.
C11_Witness ==
    /\ driver = "gcb"
    /\ entryRunning
    /\ refreshes >= 2
    /\ run.SystemData.Status = "FAILURE"
    /\ ~run.IsSuccess
    /\ ~run.IsRunning

\* The characters of s are all hexadecimal digits.
IsHex(s) ==
    \A i \in 1..Len(s) : StringIndex("0123456789abcdefABCDEF", SubSeq(s, i, i), 1) # 0

\* C12: every dependency string lands in exactly one class. 40 hexadecimal
\* characters after the '@' make a Git commit (URI before the '@', sha1 and
\* gitCommit digests, download location the string); else a text starting
\* with sha and holding ':' makes a digest (lowercased algorithm, download
\* location the string); anything else, a 40-character text that is not
\* hexadecimal or a string without '@' included, keeps the whole string as
\* URI, without digest. Read off the resolved dependencies of a v1
\* predicate, which keep each descriptor whole and in order.
C12_DependencyClasses ==
    (apc = "attested" /\ statement.Predicate.Kind = "v1") =>
        \A i \in DOMAIN depURIs :
            LET uri == depURIs[i]
                sfx == uri.Suffix
                des == statement.Predicate.Deps[i]
                before == [uri EXCEPT !.Suffix = ""]
                colon == StringIndex(sfx, ":", 1)
            IN  CASE Len(sfx) = 40 /\ IsHex(sfx) ->
                        /\ des.URI = before
                        /\ des.Digest = [a \in {"sha1", "gitCommit"} |-> sfx]
                        /\ des.DownloadLocation = uri
                  [] HasPrefix(ToLower(sfx), "sha") /\ colon # 0 ->
                        /\ des.URI = before
                        /\ des.Digest = [a \in {ToLower(SubSeq(sfx, 1, colon - 1))} |->
                                            SubSeq(sfx, colon + 1, Len(sfx))]
                        /\ des.DownloadLocation = uri
                  [] OTHER ->
                        /\ des.URI = uri
                        /\ des.Digest = NoDigest
                        /\ des.DownloadLocation = NoURI

\* C13: the dependency list of the predicate AttestRun got from
\* Builder.BuildPredicate, of either version, holds no URI twice.
C13_OneEntryPerURI ==
    apc = "attested" =>
        \A i, j \in DOMAIN statement.Predicate.Deps :
            i # j => statement.Predicate.Deps[i].URI # statement.Predicate.Deps[j].URI

\* C14: a second AttestRun on the same watcher and run, with or without a
\* loaded draft, returns the subject list and the dependency list the
\* first call returned.
C14_AttestRunIdempotent ==
    apc = "attestedagain" =>
        /\ statement.Subject = prevStatement.Subject
        /\ statement.Predicate.Deps = prevStatement.Predicate.Deps

\* C15: the build-driver registry gives a driver, and no error, exactly for
\* the schemes gcb and github. The storage registry selects one driver
\* exactly for file, gs, oci, actions, gcb, github and the composed schemes
\* intoto+... and spdx+...; for any other scheme it returns an error and
\* AddArtifactSource leaves the store list as it was.
C15_DispatchTotal ==
    LET plain == [file |-> "NewDirectory", gs |-> "NewGCS", oci |-> "NewOCI",
                  actions |-> "NewActions", gcb |-> "NewGCB", github |-> "NewGithub"]
        sch == registry.Scheme
    IN  /\ registry.Call = "builder" =>
              IF sch \in {"gcb", "github"}
              THEN registry.Err = "" /\ registry.Impl # "none" /\ driver = sch
              ELSE registry.Err # "" /\ registry.Impl = "none"
        /\ registry.Call = "store" =>
              CASE sch \in DOMAIN plain -> registry.Impl = plain[sch]
                [] HasPrefix(sch, "intoto+") -> registry.Impl = "NewAttestation"
                [] HasPrefix(sch, "spdx+") -> registry.Impl = "NewSPDX"
                [] OTHER -> /\ registry.Impl = "none"
                            /\ registry.Err # ""
                            /\ stores2 = registry.Before
        /\ registry.Call = "store" =>
              (registry.Err = "" <=> stores2 = Append(registry.Before, SpecURLOf(sch)))

\* C15 witness: a URL of a composed scheme has been added, and then a URL
\* of an unknown composed scheme refused.
C15_Witness ==
    /\ registry.Call = "store"
    /\ registry.Scheme = "cyclonedx+file"
    /\ registry.Err # ""
    /\ stores2 = <<SpecURLOf("intoto+https")>>

\* C16: for a Cloud Build run whose build succeeded and carries the
\* substitutions COMMIT_SHA and REPO_NAME, building the predicate ends
\* without failure, with the Cloud Build build type, a config source URI
\* and, in a v0.2 predicate, the commit as sha1 digest of the config source.
C16_GCBPredicate ==
    ( /\ driver = "gcb"
      /\ run.SystemData.Status = "SUCCESS"
      /\ {"COMMIT_SHA", "REPO_NAME"} \subseteq run.SystemData.Subs
      /\ apc # "collected" ) =>
        /\ apc \in {"attested", "attestedagain"}
        /\ statement.Predicate.BuildType = "https://cloudbuild.googleapis.com/CloudBuildYaml@v1"
        /\ statement.Predicate.ConfigSource.URI # NoURI
        /\ statement.Predicate.Kind = "v0.2" =>
                "sha1" \in DOMAIN statement.Predicate.ConfigSource.Digest

\* C17: for the run URL github://github.com/org/repo/7492361110 (the form
\* github://host/owner/repo/run-id), GetRun does not refuse the URL, and
\* when the backend answers completed with conclusion failure the run it
\* returns is neither successful nor running and its build point is
\* git+ssh://github.com/org/repo at the head commit.
C17_WorkflowRunURI ==
    (driver = "github" /\ specURL = "github://github.com/org/repo/7492361110" /\ wpc # "start") =>
        /\ werr # "parsing spec url"
        /\ (/\ wpc = "check"
            /\ refreshes = 0
            /\ run.SystemData.Status = "completed"
            /\ run.SystemData.Conclusion = "failure") =>
                /\ ~run.IsSuccess
                /\ ~run.IsRunning
                /\ run.BuildPoint = [Base |-> "git+ssh://github.com/org/repo", Suffix |-> Commit40]

\* C18: a refresh of a GCB run that returns no error has read one of the
\* nine statuses the driver maps; a build of any other status (as
\* STATUS_UNKNOWN) is refused with an error, so it never becomes the run's
\* SystemData with the flags of before.
C18_UnknownStatusIsError ==
    driver = "gcb" =>
        run.SystemData.Status \in {"none", "SUCCESS"} \cup GCBRunningStatuses \cup GCBFailedStatuses

\* C19: when GCS.Snap has returned for a bucket one of whose objects, at
\* the top of the prefix or under the inner prefix, failed to download, it
\* returned an error and no snapshot.
C19_NoPartialSnapshot ==
    (gcs.pc = "returned" /\ \E f \in DOMAIN gcs.WorkDir : gcs.WorkDir[f] = "partial") =>
        gcs.Err # "" /\ gcs.Snap = NoSnap

\* The number of artifacts the first n of the given storage locations hold.
RECURSIVE HeldBefore(_, _, _)
HeldBefore(all, st, n) ==
    IF n = 0 THEN 0 ELSE HeldBefore(all, st, n - 1) + Cardinality(DOMAIN st[all[n]])

\* C20: a CollectArtifacts call that returns without error leaves in
\* run.Artifacts, one segment after the other, what each configured store
\* holds, in the order of the store list, and then what the native store of
\* the workflow driver holds; nothing of an earlier call stays, and the
\* store list is as before the call.
C20_CollectFrame ==
    [][(apc \in {"draftloaded", "collected"} /\ apc' \in {"collected", "collectedagain"}) =>
        LET all == stores2 \o (IF driver = "github" THEN <<NativeStoreURL>> ELSE <<>>)
            got == run'.Artifacts
        IN  /\ stores2' = stores2
            /\ Len(got) = HeldBefore(all, storage, Len(all))
            /\ \A i \in 1..Len(all) :
                    {got[k] : k \in (HeldBefore(all, storage, i - 1) + 1)..HeldBefore(all, storage, i)}
                        = {storage[all[i]][p] : p \in DOMAIN storage[all[i]]}]_vars

\* C20 witness: a second collection has returned for two configured stores
\* that hold different artifacts, and the run has exactly what they hold,
\* the first store's artifacts first.
C20_Witness ==
    /\ apc = "collectedagain"
    /\ Len(stores2) = 2
    /\ storage[stores2[1]] # EmptyMap
    /\ Cardinality(DOMAIN storage[stores2[2]]) = 2
    /\ storage[stores2[1]] # storage[stores2[2]]
    /\ Len(run.Artifacts) = Cardinality(DOMAIN storage[stores2[1]]) + 2 + Cardinality(DOMAIN storage[NativeStoreURL])
    /\ run.Artifacts[1] \in {storage[stores2[1]][p] : p \in DOMAIN storage[stores2[1]]}

\* C23: the delta of a snapshot with itself is empty: when a.Delta(a) has
\* returned, results holds no artifact.
C23_DeltaOfSelfEmpty ==
    (dpc = "done" /\ pre = post) => results = <<>>

\* C23 witness: Delta has returned for a snapshot of two files with
\* checksums, given itself as argument.
C23_Witness ==
    /\ dpc = "done"
    /\ pre = post
    /\ DOMAIN pre = Paths
    /\ \A p \in Paths : DOMAIN pre[p].Checksum # {}
    /\ results = <<>>

\* C21: when GCS.Snap has returned a snapshot of a bucket all of whose
\* downloads work, every object of a size above zero, those of content
\* type text/plain too, is in the snapshot, and no text/plain object of
\* size zero is.
C21_OnlyMarkersSkipped ==
    (gcs.pc = "returned" /\ gcs.Fails = {}) =>
        \A f \in gcs.Objects :
            /\ gcs.Attrs[f].Size > 0 => \E a \in gcs.Snap : a.Path = "gs://bucket/" \o f
            /\ (gcs.Attrs[f].Size = 0 /\ gcs.Attrs[f].ContentType = "text/plain") =>
                    ~\E a \in gcs.Snap : a.Path = "gs://bucket/" \o f

\* C22: the v0.2 predicate built for a Cloud Build run lists under
\* buildConfig.steps one entry of image and arguments for every step of the
\* run, in step order.
C22_BuildConfigSteps ==
    (driver = "gcb" /\ apc = "attested" /\ statement.Predicate.Kind = "v0.2") =>
        /\ statement.Predicate.BuildConfig.Set
        /\ statement.Predicate.BuildConfig.steps =
                [i \in 1..Len(run.Steps) |->
                    [image |-> run.Steps[i].Image, arguments |-> run.Steps[i].Params]]

\* C24: against a backend that reaches a terminal status, a Watch that has
\* been entered returns: with nil and a run that is not running when no
\* refresh failed, or with the error of the refresh that failed.
C24_WatchReturns ==
    (wpc = "check") ~>
        (/\ wpc = "returned"
         /\ \/ werr = "nil" /\ ~run.IsRunning
            \/ werr = "refreshing run data")

\* C24 witness: Watch polled a Cloud Build run at least twice, the last
\* answer was a failed status, and Watch returned nil.
C24_Witness ==
    /\ driver = "gcb"
    /\ wpc = "returned"
    /\ werr = "nil"
    /\ refreshes >= 2
    /\ run.SystemData.Status \in GCBFailedStatuses
    /\ ~run.IsRunning

\* C25: in attest with WaitForBuild, the draft and the snapshots are
\* loaded, the artifacts collected and the statement assembled only when
\* Watch has returned nil with a run that is not running; output exists
\* only once the statement is assembled and serialized, and holds that
\* statement; after a failure of GetRun, Watch, LoadAttestation,
\* LoadSnapshots, CollectArtifacts, AttestRun or the serialization there is
\* no output.
C25_OutputLast ==
    /\ (apc # "emitted" \/ spc \in {"loaded", "loadfailed"}) =>
            (wpc = "returned" /\ werr = "nil" /\ ~run.IsRunning)
    /\ output.Exists =>
            /\ apc = "written"
            /\ statement # NoAtt
            /\ output.Data.subject = statement.Subject
            /\ output.Data.predicateType = statement.PredicateType
    /\ ( \/ wpc = "failed"
         \/ werr # "nil"
         \/ spc = "loadfailed"
         \/ apc \in {"failed", "panicked", "serializefailed"} ) => ~output.Exists

\* C25 witness: attest waited for a build that was running, collected an
\* artifact and wrote the statement naming it.
C25_Witness ==
    /\ apc = "written"
    /\ entryRunning
    /\ refreshes >= 1
    /\ output.Exists
    /\ output.Data.subject # <<>>

C30_KeyIsPath ==
    oci.pc = "returned" =>
        \A k \in DOMAIN oci.Snap : oci.Snap[k].Path = k

\* C28: whatever the interleaving of its goroutines, a readArtifacts none
\* of whose goroutines fails returns exactly one artifact per entry of the
\* manifest, the artifact of that entry's location; when a goroutine fails
\* it returns an error and no artifacts.
C28_OneArtifactPerEntry ==
    fan.pc = "returned" =>
        IF fan.Fails # {}
        THEN fan.Err # "" /\ fan.Result = <<>>
        ELSE /\ fan.Err = ""
             /\ Len(fan.Result) = Len(fan.Manifest)
             /\ \A i \in DOMAIN fan.Result :
                    fan.Result[i] = FileArtifact(fan.Result[i].Path, 1)
             /\ \A loc \in {fan.Manifest[i] : i \in DOMAIN fan.Manifest} :
                    Cardinality({i \in DOMAIN fan.Result : fan.Result[i].Path = loc})
                        = Cardinality({i \in DOMAIN fan.Manifest : fan.Manifest[i] = loc})

\* C28 witness: three goroutines, the manifest naming two locations, all
\* appended, in an order other than the manifest's.
C28_Witness ==
    /\ fan.pc = "returned"
    /\ Len(fan.Manifest) = 3
    /\ fan.Fails = {}
    /\ Len(fan.Result) = 3
    /\ fan.Manifest[1] # fan.Manifest[3]
    /\ fan.Result[1].Path # fan.Manifest[1]

\* C26: in start attestation, once the draft is emitted the one pre-snapshot
\* of every artifact source has been taken and, when a state path is
\* resolved, the state file holds it; a message is published only after the
\* draft was emitted, to the configured topic, once, and decoding its
\* attestation field gives the emitted draft and decoding its snapshots
\* field gives the state file written (nothing when no path is resolved).
C26_PublishedAfterEmitted ==
    /\ apc # "start" =>
            /\ spc = "saved"
            /\ Len(snaps1) = 1
            /\ DOMAIN snaps1[1] = {stores1[i] : i \in DOMAIN stores1}
            /\ pubsub.StatePath => file = [Exists |-> TRUE, Data |-> EncodeSnapshots(snaps1)]
            /\ draftFile # NoDoc
    /\ pubsub.Messages # <<>> =>
            /\ apc = "published"
            /\ pubsub.Topic # ""
            /\ Len(pubsub.Messages) = 1
            /\ ~Base64Decode(pubsub.Messages[1].Attestation).Err
            /\ Base64Decode(pubsub.Messages[1].Attestation).Data = draftFile
            /\ ~Base64Decode(pubsub.Messages[1].Snapshots).Err
            /\ Base64Decode(pubsub.Messages[1].Snapshots).Data
                    = IF pubsub.StatePath THEN EncodeSnapshots(snaps1) ELSE <<>>

\* C26 witness: with a state path resolved where an older state file lay,
\* and two artifact sources one of which holds a file, start published
\* its message.
C26_Witness ==
    /\ apc = "published"
    /\ pubsub.StatePath
    /\ Len(pubsub.Messages) = 1
    /\ Len(stores1) = 2
    /\ \E u \in DOMAIN snaps1[1] : snaps1[1][u] # EmptyMap
    /\ file.Data # EncodeSnapshots(<<EmptyMap>>)
    /\ Base64Decode(pubsub.Messages[1].Snapshots).Data = file.Data

====
